---- MODULE Spec2Model ----
(***************************************************************************)
(* A model of the chunk cache, the cached array retrieval, the default    *)
(* partial encoders and the sharding partial encoder of zarrs.            *)
(*                                                                         *)
(* The module holds several specifications over one set of variables:     *)
(*   SpecCache  the chunk cache (ChunkCache trait and its two LRU          *)
(*              implementations) under concurrent callers;                 *)
(*   SpecArray  the cached retrieval methods of Array (encoded cache);     *)
(*   SpecEnc    the default partial encoders;                              *)
(*   SpecShard  the sharding partial encoder.                              *)
(* Each specification leaves the variables of the others unchanged.       *)
(***************************************************************************)
EXTENDS Integers, Sequences, FiniteSets, TLC

VARIABLES
    kind,       \* which ChunkCache implementation was constructed
    capacity,   \* the capacity given to new(): chunks or bytes
    cache,      \* the moka cache: map, access order, policy weights, pending ops
    waiter,     \* moka's per-key in-flight initialisation: key -> caller running the thunk
    pc,         \* each caller's position in its current cache call
    ckey,       \* the key of each caller's current call
    cval,       \* the value a caller's thunk returned and it has yet to insert
    obs,        \* what the last step returned to its callers, and what it evicted
    recency,    \* history of the cache scenarios: the keys ever cached, by last use, latest last
    encv,       \* state of the default partial encoder scenario
    shardv,     \* state of the sharding partial encoder scenario
    arrv        \* state of the cached array retrieval scenario

cacheVars == <<kind, capacity, cache, waiter, pc, ckey, cval, obs, recency>>
vars == <<kind, capacity, cache, waiter, pc, ckey, cval, obs, recency, encv, shardv, arrv>>

----------------------------------------------------------------------------
(* Bounds of the model.                                                    *)

NumKeys == 3        \* chunk keys of the sequential cache scenario
MaxCapacity == 2    \* largest capacity given to new()
MaxBytes == 2       \* longest encoded chunk placed in the cache
NumCallers == 2     \* concurrent callers of the concurrent cache scenario
NumConcKeys == 2    \* chunk keys of the concurrent cache scenario

Keys == 1..NumKeys
Callers == 1..NumCallers
ConcKeys == 1..NumConcKeys

Min(a, b) == IF a < b THEN a ELSE b
Max(a, b) == IF a > b THEN a ELSE b

----------------------------------------------------------------------------
(* Values of an encoded chunk cache: Option<RawBytes>.                     *)

NoneV == [some |-> FALSE, bytes |-> <<>>]
SomeV(b) == [some |-> TRUE, bytes |-> b]

(* The values a thunk of the cache-level scenario may return.              *)
ByteSeqs == UNION {[1..n -> {7}] : n \in 1..MaxBytes}
ThunkValues == {NoneV} \cup {SomeV(b) : b \in ByteSeqs}
ConcValues == {NoneV, SomeV(<<7>>)}

(* Values of a decoded chunk cache: ArrayBytes, fixed-width bytes or       *)
(* variable-width bytes with their offsets.  An offset is a usize.         *)
UsizeBytes == 8
Fixed(b) == [bytes |-> b, offsets |-> <<>>]
Variable(b, offsets) == [bytes |-> b, offsets |-> offsets]
DecodedValues ==
    {Fixed(<<7>>), Fixed(<<7, 7>>), Variable(<<7>>, <<0, 1>>),
     Variable(<<7>>, <<0, 0, 1>>)}

(* u32::MAX, the largest weight the weigher can report, scaled down to the *)
(* sizes of the model: the largest decoded value is above it.              *)
U32Max == 20

(* ArrayBytes::size: the bytes, and the offsets of a variable-width value. *)
ArrayBytesSize(v) == Len(v.bytes) + Len(v.offsets) * UsizeBytes

(* The byte length matters to the size-limited caches alone.               *)
LruValues ==
    IF kind = "size_limit" THEN ThunkValues
    ELSE IF kind = "size_limit_decoded" THEN DecodedValues
    ELSE ConcValues

(* As Weigher, but an absent chunk weighs 1 and a decoded chunk weighs    *)
(* its bytes without its offsets.                                          *)
WeigherCountsAbsent(kd, v) ==
    IF kd = "size_limit" THEN (IF v.some THEN Min(Len(v.bytes), U32Max) ELSE 1)
    ELSE IF kd = "size_limit_decoded" THEN Min(Len(v.bytes), U32Max)
    ELSE 1

(* The weigher given to the CacheBuilder: 1 per entry for the chunk-limited *)
(* cache (moka's default); for the size-limited cache the byte length (0    *)
(* for an absent chunk) of an encoded chunk and the size of a decoded one,  *)
(* both saturating at u32::MAX.                                             *)
Weigher(kd, v) ==
    IF kd = "size_limit" THEN (IF v.some THEN Min(Len(v.bytes), U32Max) ELSE 0)
    ELSE IF kd = "size_limit_decoded" THEN Min(ArrayBytesSize(v), U32Max)
    ELSE 1

----------------------------------------------------------------------------
(* The moka cache.  An insert or a hit is visible in the map at once and   *)
(* queues an operation; housekeeping applies the queued operations to the  *)
(* LRU order and the policy weights, then evicts from the LRU end.         *)

EmptyFn == [x \in {} |-> 0]
EmptyCache == [map |-> EmptyFn, order |-> <<>>, w |-> EmptyFn, ops |-> <<>>]

Drop(f, k) == [x \in (DOMAIN f) \ {k} |-> f[x]]
Put(f, k, v) == [x \in (DOMAIN f) \cup {k} |-> IF x = k THEN v ELSE f[x]]

SeqRemove(s, k) == SelectSeq(s, LAMBDA x : x # k)
InSeq(s, k) == \E i \in 1..Len(s) : s[i] = k

RECURSIVE SumW(_, _)
SumW(w, ks) ==
    IF ks = {} THEN 0
    ELSE LET k == CHOOSE x \in ks : TRUE IN w[k] + SumW(w, ks \ {k})

WeightedSize(c) == SumW(c.w, DOMAIN c.w)
EntryCount(c) == Cardinality(DOMAIN c.w)

CacheGet(c, k) ==
    IF k \in DOMAIN c.map
    THEN [c EXCEPT !.ops = Append(@, [t |-> "r", k |-> k])]
    ELSE c

CacheInsert(c, k, v) ==
    [c EXCEPT !.map = Put(@, k, v), !.ops = Append(@, [t |-> "w", k |-> k])]

(* As ApplyOp, but a hit does not refresh the entry's place in the order.  *)
ApplyOpIgnoringReads(c, op, kd, cap) ==
    IF op.k \notin DOMAIN c.map \/ op.t = "r" THEN c
    ELSE IF op.k \in DOMAIN c.w
    THEN [c EXCEPT !.order = Append(SeqRemove(@, op.k), op.k),
                   !.w = Put(@, op.k, Weigher(kd, c.map[op.k]))]
    ELSE IF Weigher(kd, c.map[op.k]) > cap
    THEN [c EXCEPT !.map = Drop(@, op.k)]
    ELSE [c EXCEPT !.order = Append(@, op.k),
                   !.w = Put(@, op.k, Weigher(kd, c.map[op.k]))]

(* As ApplyOp, but a write to an admitted entry adds the weight of the new *)
(* value to the weight the entry has.                                      *)
ApplyOpAddsWeight(c, op, kd, cap) ==
    IF op.k \notin DOMAIN c.map THEN c
    ELSE IF op.k \in DOMAIN c.w
    THEN [c EXCEPT !.order = Append(SeqRemove(@, op.k), op.k),
                   !.w = IF op.t = "w"
                         THEN Put(@, op.k, @[op.k] + Weigher(kd, c.map[op.k]))
                         ELSE @]
    ELSE IF op.t = "r" THEN c
    ELSE IF Weigher(kd, c.map[op.k]) > cap
    THEN [c EXCEPT !.map = Drop(@, op.k)]
    ELSE [c EXCEPT !.order = Append(@, op.k),
                   !.w = Put(@, op.k, Weigher(kd, c.map[op.k]))]

(* One queued operation applied to the policy state: a hit moves an        *)
(* admitted entry to the recent end; a write updates an admitted entry,    *)
(* rejects a new entry heavier than the capacity, and admits any other.    *)
ApplyOp(c, op, kd, cap) ==
    IF op.k \notin DOMAIN c.map THEN c
    ELSE IF op.k \in DOMAIN c.w
    THEN [c EXCEPT !.order = Append(SeqRemove(@, op.k), op.k),
                   !.w = IF op.t = "w" THEN Put(@, op.k, Weigher(kd, c.map[op.k])) ELSE @]
    ELSE IF op.t = "r" THEN c
    ELSE IF Weigher(kd, c.map[op.k]) > cap
    THEN [c EXCEPT !.map = Drop(@, op.k)]
    ELSE [c EXCEPT !.order = Append(@, op.k),
                   !.w = Put(@, op.k, Weigher(kd, c.map[op.k]))]

RECURSIVE ApplyOps(_, _, _, _)
ApplyOps(c, ops, kd, cap) ==
    IF ops = <<>> THEN c
    ELSE ApplyOps(ApplyOp(c, Head(ops), kd, cap), Tail(ops), kd, cap)

EvictOne(c) ==
    LET k == Head(c.order)
    IN [c EXCEPT !.map = Drop(@, k), !.order = Tail(@), !.w = Drop(@, k)]

(* As EvictLru, but it stops after one victim.                             *)
EvictLruAtMostOne(c, cap) ==
    IF WeightedSize(c) > cap /\ c.order # <<>> THEN EvictOne(c) ELSE c

(* As EvictLru, but it lets one unit of weight too many stay.              *)
RECURSIVE EvictLruOffByOne(_, _)
EvictLruOffByOne(c, cap) ==
    IF WeightedSize(c) > cap + 1 /\ c.order # <<>>
    THEN EvictLruOffByOne(EvictOne(c), cap)
    ELSE c

RECURSIVE EvictLru(_, _)
EvictLru(c, cap) ==
    IF WeightedSize(c) > cap /\ c.order # <<>>
    THEN EvictLru(EvictOne(c), cap)
    ELSE c

RunPendingTasks(c, kd, cap) ==
    EvictLru([ApplyOps(c, c.ops, kd, cap) EXCEPT !.ops = <<>>], cap)

----------------------------------------------------------------------------
(* What a step returns.  to: the callers that receive the result; n: the   *)
(* caller whose thunk produced the value or the error (0: none), or the    *)
(* number reported by len() and size().                                    *)

Obs(tag, to, k, v, n) == [tag |-> tag, to |-> to, k |-> k, v |-> v, n |-> n]
NoObs == Obs("none", {}, 0, NoneV, 0)

Touch(r, k) == Append(SeqRemove(r, k), k)
Inserted == {recency[i] : i \in 1..Len(recency)}

Housekeep(c) == RunPendingTasks(c, kind, capacity)

(* What a housekeeping run from cache c evicts and keeps: of the keys      *)
(* admitted once the queued operations are applied, those gone afterwards  *)
(* and those still there.                                                  *)
Admitted(c) == DOMAIN (ApplyOps(c, c.ops, kind, capacity)).w
Kept(c) == DOMAIN (Housekeep(c)).w
Gone(c) == Admitted(c) \ Kept(c)

(* Housekeeping lags the calls by at most one operation: a call that finds *)
(* an operation still queued waits for the housekeeping to run.            *)
Room == cache.ops = <<>>

----------------------------------------------------------------------------
(* ChunkCache::get                                                         *)
Get(c, k) ==
    /\ pc[c] = "idle"
    /\ Room
    /\ cache' = CacheGet(cache, k)
    /\ obs' = IF k \in DOMAIN cache.map
              THEN Obs("hit", {c}, k, cache.map[k], 0)
              ELSE Obs("miss", {c}, k, NoneV, 0)
    /\ recency' = IF k \in DOMAIN cache.map THEN Touch(recency, k) ELSE recency
    /\ UNCHANGED <<kind, capacity, waiter, pc, ckey, cval>>
    /\ UNCHANGED <<encv, shardv, arrv>>

(* ChunkCache::insert                                                      *)
Insert(c, k, v) ==
    /\ pc[c] = "idle"
    /\ Room
    /\ cache' = CacheInsert(cache, k, v)
    /\ obs' = Obs("insert", {c}, k, v, 0)
    /\ recency' = Touch(recency, k)
    /\ UNCHANGED <<kind, capacity, waiter, pc, ckey, cval>>
    /\ UNCHANGED <<encv, shardv, arrv>>

(* ChunkCache::len: run_pending_tasks, then entry_count.                   *)
LenCall(c) ==
    /\ pc[c] = "idle"
    /\ cache' = Housekeep(cache)
    /\ obs' = Obs("len", {c}, 0, NoneV, EntryCount(Housekeep(cache)))
    /\ UNCHANGED <<kind, capacity, waiter, pc, ckey, cval, recency>>
    /\ UNCHANGED <<encv, shardv, arrv>>

(* ChunkCacheLruSizeLimit::size: run_pending_tasks, then weighted_size.    *)
SizeCall(c) ==
    /\ pc[c] = "idle"
    /\ kind \in {"size_limit", "size_limit_decoded"}
    /\ cache' = Housekeep(cache)
    /\ obs' = Obs("size", {c}, 0, NoneV, WeightedSize(Housekeep(cache)))
    /\ UNCHANGED <<kind, capacity, waiter, pc, ckey, cval, recency>>
    /\ UNCHANGED <<encv, shardv, arrv>>

(* moka's own housekeeping, run from any thread that uses the cache.       *)
Housekeeping ==
    /\ cache.ops # <<>>
    /\ cache' = Housekeep(cache)
    /\ obs' = Obs("housekeeping", {}, 0, NoneV, 0)
    /\ UNCHANGED <<kind, capacity, waiter, pc, ckey, cval, recency>>
    /\ UNCHANGED <<encv, shardv, arrv>>

----------------------------------------------------------------------------
(* try_get_or_insert_with.  The two LRU caches hand the call to moka's     *)
(* try_get_with; a cache that does not override the trait method runs the  *)
(* trait's default body: get, then the thunk, then insert.                 *)

UsesMoka == kind \in {"chunk_limit", "size_limit", "size_limit_decoded"}

Waiting(k) == {w \in Callers : pc[w] = "wait" /\ ckey[w] = k}

(* moka's try_get_with, up to the point where the thunk has to run: a hit  *)
(* returns; a miss makes the caller the one that runs the thunk, unless    *)
(* another caller is already running it for this key, and then it blocks.  *)
TryGetWithStart(c, k) ==
    /\ UsesMoka
    /\ IF k \in DOMAIN cache.map
       THEN /\ cache' = CacheGet(cache, k)
            /\ recency' = Touch(recency, k)
            /\ obs' = Obs("ok", {c}, k, cache.map[k], 0)
            /\ UNCHANGED <<pc, ckey, waiter>>
       ELSE IF k \in DOMAIN waiter
       THEN /\ pc' = [pc EXCEPT ![c] = "wait"]
            /\ ckey' = [ckey EXCEPT ![c] = k]
            /\ obs' = Obs("blocked", {c}, k, NoneV, 0)
            /\ UNCHANGED <<cache, recency, waiter>>
       ELSE /\ waiter' = Put(waiter, k, c)
            /\ pc' = [pc EXCEPT ![c] = "init"]
            /\ ckey' = [ckey EXCEPT ![c] = k]
            /\ obs' = Obs("thunk", {c}, k, NoneV, 0)
            /\ UNCHANGED <<cache, recency>>

(* The trait's default body, up to the point where the thunk has to run.   *)
DefaultStart(c, k) ==
    /\ ~UsesMoka
    /\ cache' = CacheGet(cache, k)
    /\ UNCHANGED waiter
    /\ IF k \in DOMAIN cache.map
       THEN /\ recency' = Touch(recency, k)
            /\ obs' = Obs("ok", {c}, k, cache.map[k], 0)
            /\ UNCHANGED <<pc, ckey>>
       ELSE /\ pc' = [pc EXCEPT ![c] = "init"]
            /\ ckey' = [ckey EXCEPT ![c] = k]
            /\ obs' = Obs("thunk", {c}, k, NoneV, 0)
            /\ UNCHANGED recency

TryGetOrInsertWith(c, k) ==
    /\ pc[c] = "idle"
    /\ Room
    /\ TryGetWithStart(c, k) \/ DefaultStart(c, k)
    /\ UNCHANGED <<kind, capacity, cval>>
    /\ UNCHANGED <<encv, shardv, arrv>>

Release(c, k) ==
    [x \in Callers |-> IF x = c \/ x \in Waiting(k) THEN "idle" ELSE pc[x]]
Forget(c, k) ==
    [x \in Callers |-> IF x = c \/ x \in Waiting(k) THEN 0 ELSE ckey[x]]

(* The thunk returns Ok(v).  moka inserts the value, removes the waiter    *)
(* and hands the value to the callers blocked on it; the default body      *)
(* goes on to its own insert.                                              *)
ThunkOk(c, v) ==
    /\ pc[c] = "init"
    /\ Room
    /\ IF UsesMoka
       THEN /\ cache' = CacheInsert(cache, ckey[c], v)
            /\ recency' = Touch(recency, ckey[c])
            /\ waiter' = Drop(waiter, ckey[c])
            /\ obs' = Obs("ok", {c} \cup Waiting(ckey[c]), ckey[c], v, c)
            /\ pc' = Release(c, ckey[c])
            /\ ckey' = Forget(c, ckey[c])
            /\ UNCHANGED cval
       ELSE /\ cval' = [cval EXCEPT ![c] = v]
            /\ pc' = [pc EXCEPT ![c] = "insert"]
            /\ obs' = Obs("thunk_ok", {}, ckey[c], v, c)
            /\ UNCHANGED <<cache, recency, waiter, ckey>>
    /\ UNCHANGED <<kind, capacity>>
    /\ UNCHANGED <<encv, shardv, arrv>>

(* The thunk returns Err.  Nothing is inserted; under moka the callers     *)
(* blocked on the key get the same (shared) error.                         *)
ThunkErr(c) ==
    /\ pc[c] = "init"
    /\ IF UsesMoka
       THEN /\ waiter' = Drop(waiter, ckey[c])
            /\ obs' = Obs("err", {c} \cup Waiting(ckey[c]), ckey[c], NoneV, c)
            /\ pc' = Release(c, ckey[c])
            /\ ckey' = Forget(c, ckey[c])
       ELSE /\ obs' = Obs("err", {c}, ckey[c], NoneV, c)
            /\ pc' = [pc EXCEPT ![c] = "idle"]
            /\ ckey' = [ckey EXCEPT ![c] = 0]
            /\ UNCHANGED waiter
    /\ UNCHANGED <<kind, capacity, cache, cval, recency>>
    /\ UNCHANGED <<encv, shardv, arrv>>

(* The default body's insert of the value its thunk returned.              *)
DefaultInsert(c) ==
    /\ pc[c] = "insert"
    /\ Room
    /\ cache' = CacheInsert(cache, ckey[c], cval[c])
    /\ recency' = Touch(recency, ckey[c])
    /\ obs' = Obs("ok", {c}, ckey[c], cval[c], c)
    /\ cval' = [cval EXCEPT ![c] = NoneV]
    /\ pc' = [pc EXCEPT ![c] = "idle"]
    /\ ckey' = [ckey EXCEPT ![c] = 0]
    /\ UNCHANGED <<kind, capacity, waiter>>
    /\ UNCHANGED <<encv, shardv, arrv>>

----------------------------------------------------------------------------
Kinds == {"chunk_limit", "size_limit", "trait_default"}

IdleOthers ==
    /\ encv = 0
    /\ shardv = 0
    /\ arrv = 0

FreshCache ==
    /\ cache = EmptyCache
    /\ waiter = EmptyFn
    /\ pc = [c \in Callers |-> "idle"]
    /\ ckey = [c \in Callers |-> 0]
    /\ cval = [c \in Callers |-> NoneV]
    /\ obs = NoObs
    /\ recency = <<>>

(* The chunk cache under concurrent callers.                               *)
InitCache ==
    /\ kind \in Kinds
    /\ capacity = 1
    /\ FreshCache
    /\ IdleOthers

NextCache ==
    \/ \E c \in Callers, k \in ConcKeys : Get(c, k)
    \/ \E c \in Callers, k \in ConcKeys, v \in ConcValues : Insert(c, k, v)
    \/ \E c \in Callers, k \in ConcKeys : TryGetOrInsertWith(c, k)
    \/ \E c \in Callers, v \in ConcValues : ThunkOk(c, v)
    \/ \E c \in Callers : ThunkErr(c)
    \/ \E c \in Callers : DefaultInsert(c)
    \/ Housekeeping

SpecCache == InitCache /\ [][NextCache]_vars

(* One LRU cache used by one thread.                                       *)
InitLru ==
    /\ kind \in {"chunk_limit", "size_limit"}
    /\ capacity \in 0..MaxCapacity
    /\ FreshCache
    /\ IdleOthers

NextLru ==
    \/ \E k \in Keys : Get(1, k)
    \/ \E k \in Keys, v \in LruValues : Insert(1, k, v)
    \/ \E k \in Keys : TryGetOrInsertWith(1, k)
    \/ \E v \in LruValues : ThunkOk(1, v)
    \/ ThunkErr(1)
    \/ LenCall(1)
    \/ SizeCall(1)
    \/ Housekeeping

SpecLru == InitLru /\ [][NextLru]_vars

----------------------------------------------------------------------------
(* Properties of the chunk cache.                                          *)

Pos(s, k) == CHOOSE i \in 1..Len(s) : s[i] = k

RunningThunk(c) == pc[c] = "init"

(* C1: concurrent callers of try_get_or_insert_with on one key that is not *)
(* cached: the thunk is invoked at most once, so no two callers ever run   *)
(* the thunk for the same key at the same time.  The trait's default body  *)
(* breaks it: both callers miss and each runs its own thunk.               *)
C1_ThunkAtMostOnce ==
    \A c1 \in Callers, c2 \in Callers :
        (c1 # c2 /\ RunningThunk(c1) /\ RunningThunk(c2)) => ckey[c1] # ckey[c2]

(* The same for the two LRU caches, which hand the call to moka: at most   *)
(* one caller runs the thunk per key, every other caller of the key is     *)
(* blocked, and the step that ends the thunk releases all of them with     *)
(* the one result.                                                         *)
MokaSingleFlight ==
    UsesMoka =>
        /\ C1_ThunkAtMostOnce
        /\ \A c \in Callers : pc[c] = "wait" =>
               /\ ckey[c] \in DOMAIN waiter
               /\ RunningThunk(waiter[ckey[c]])
               /\ ckey[waiter[ckey[c]]] = ckey[c]
        /\ \A c \in Callers : pc[c] # "insert"

(* C5: a count-limited cache of capacity N: len() never reports more than  *)
(* N entries, and it reports exactly min(N, number of distinct chunks ever *)
(* placed in the cache), so N after N+1 distinct chunks.                   *)
C5_CountLimit ==
    kind = "chunk_limit" =>
        /\ EntryCount(Housekeep(cache)) <= capacity
        /\ obs.tag = "len" =>
               /\ obs.n <= capacity
               /\ obs.n = Min(capacity, Cardinality(Inserted))

C5_Witness ==
    /\ kind = "chunk_limit"
    /\ capacity >= 1
    /\ obs.tag = "len"
    /\ Cardinality(Inserted) = capacity + 1
    /\ obs.n = capacity

(* C6: a size-limited cache of capacity W bytes: size() never reports more *)
(* than W.                                                                 *)
C6_SizeLimit ==
    kind = "size_limit" =>
        /\ WeightedSize(Housekeep(cache)) <= capacity
        /\ obs.tag = "size" => obs.n <= capacity

C6_Witness ==
    /\ kind = "size_limit"
    /\ obs.tag = "size"
    /\ obs.n = capacity
    /\ capacity >= 2
    /\ Cardinality(Inserted) > Cardinality(DOMAIN cache.w)

(* C7: whenever housekeeping evicts to make room, every evicted entry was  *)
(* used (inserted or hit) less recently than every entry it keeps, and a   *)
(* new entry whose insertion forced the eviction is kept.                  *)
C7_LruEviction ==
    Gone(cache) # {} =>
        /\ \A e \in Gone(cache), r \in Kept(cache) :
               Pos(recency, e) < Pos(recency, r)
        /\ \A i \in 1..Len(cache.ops) :
               (cache.ops[i].t = "w" /\ cache.ops[i].k \notin DOMAIN cache.w)
                   => cache.ops[i].k \in Kept(cache)

(* A full cache whose least recently inserted entry was hit afterwards,    *)
(* about to evict for a new entry.                                         *)
C7_Witness ==
    /\ Gone(cache) # {}
    /\ Cardinality(Kept(cache)) >= 2
    /\ \E i \in 1..Len(cache.ops) :
           cache.ops[i].t = "w" /\ cache.ops[i].k \notin DOMAIN cache.w
    /\ \E e \in Gone(cache), r \in Kept(cache) :
           InSeq(cache.order, r) /\ Pos(cache.order, e) < Pos(cache.order, r)

----------------------------------------------------------------------------
(* The default partial encoders.  A chunk is one-dimensional and holds     *)
(* ChunkLen elements of DataTypeSize bytes.  The array-to-bytes codec is   *)
(* the bytes codec with the non-native endianness; the array-to-array      *)
(* codec is a permutation of the elements (a transpose).                   *)

ChunkLen == 2       \* elements of a chunk
MaxPairs == 2       \* most (subset, bytes) pairs given to one partial encode

DataTypeSize == 2
FillValue == <<0, 0>>
ElementValues == {<<0, 0>>, <<1, 0>>}

NumBytes(n) == n * DataTypeSize

(* The bytes of a sequence of elements, one after the other.               *)
RECURSIVE Flatten(_)
Flatten(es) ==
    IF Len(es) = 0 THEN <<>> ELSE Head(es) \o Flatten(Tail(es))

ElementSeqs(n) == {Flatten(f) : f \in [1..n -> ElementValues]}
DecodedChunks == ElementSeqs(ChunkLen)

(* ArraySubset of a chunk: start and shape, in elements.                   *)
ChunkSubsets ==
    {[start |-> s, shape |-> n] : s \in 0..(ChunkLen - 1), n \in 1..ChunkLen}
ValidSubsets == {ss \in ChunkSubsets : ss.start + ss.shape <= ChunkLen}
ArraySubsetAll == [start |-> 0, shape |-> ChunkLen]

Pairs ==
    UNION {{[subset |-> ss, bytes |-> b] : b \in ElementSeqs(ss.shape)} :
              ss \in ValidSubsets}
PairLists == UNION {[1..n -> Pairs] : n \in 0..MaxPairs}

Ok(b) == [ok |-> TRUE, bytes |-> b]
Err == [ok |-> FALSE, bytes |-> <<>>]

(* reverse_endianness: the bytes of each element in reverse order.         *)
RECURSIVE Reverse(_)
Reverse(b) == IF b = <<>> THEN <<>> ELSE Reverse(Tail(b)) \o <<Head(b)>>

RECURSIVE ReverseEndianness(_)
ReverseEndianness(b) ==
    IF Len(b) < DataTypeSize THEN b
    ELSE Reverse(SubSeq(b, 1, DataTypeSize))
             \o ReverseEndianness(SubSeq(b, DataTypeSize + 1, Len(b)))

(* The bytes codec (array to bytes).  It decodes whole elements, however   *)
(* many there are: their number is what ArrayBytes::validate looks at.     *)
BytesCodecEncode(b) == ReverseEndianness(b)
BytesCodecDecode(b) ==
    IF Len(b) % DataTypeSize = 0 THEN Ok(ReverseEndianness(b)) ELSE Err

(* The array-to-array codec: the elements in reverse order.                *)
RECURSIVE PermuteElements(_)
PermuteElements(b) ==
    IF Len(b) < DataTypeSize THEN b
    ELSE PermuteElements(SubSeq(b, DataTypeSize + 1, Len(b)))
             \o SubSeq(b, 1, DataTypeSize)
ArrayCodecEncode(b) == PermuteElements(b)
ArrayCodecDecode(b) == PermuteElements(b)

NewFillValue(n) == Flatten([i \in 1..n |-> FillValue])

IsFillValue(b) ==
    \A i \in 1..Len(b) : b[i] = FillValue[((i - 1) % DataTypeSize) + 1]

Validate(b) == Len(b) = NumBytes(ChunkLen)

(* update_array_bytes for a fixed-width data type: the bytes of the subset *)
(* copied over the chunk's bytes at the subset.                            *)
UpdateArrayBytes(chunk, subsetBytes, ss) ==
    SubSeq(chunk, 1, NumBytes(ss.start))
        \o subsetBytes
        \o SubSeq(chunk, NumBytes(ss.start + ss.shape) + 1, Len(chunk))

(* As UpdateChunk, but only the first pair is applied.                     *)
UpdateChunkFirstOnly(chunk, pairs) ==
    IF pairs = <<>> THEN chunk
    ELSE UpdateArrayBytes(chunk, Head(pairs).bytes, Head(pairs).subset)

(* As UpdateChunk, but the pairs are applied from the last to the first.   *)
RECURSIVE UpdateChunkLastFirst(_, _)
UpdateChunkLastFirst(chunk, pairs) ==
    IF pairs = <<>> THEN chunk
    ELSE UpdateChunkLastFirst(
             UpdateArrayBytes(chunk, pairs[Len(pairs)].bytes,
                              pairs[Len(pairs)].subset),
             SubSeq(pairs, 1, Len(pairs) - 1))

(* The update loop of the default partial encoders: the pairs in order.    *)
RECURSIVE UpdateChunk(_, _)
UpdateChunk(chunk, pairs) ==
    IF pairs = <<>> THEN chunk
    ELSE UpdateChunk(UpdateArrayBytes(chunk, Head(pairs).bytes, Head(pairs).subset),
                     Tail(pairs))

(* The store under the chunk key: a byte-range write at an offset keeps    *)
(* the bytes outside the range and extends the value when it has to.       *)
RECURSIVE Zeros(_)
Zeros(n) == IF n <= 0 THEN <<>> ELSE <<0>> \o Zeros(n - 1)

StorePartialEncode(st, offset, b) ==
    LET old == IF st.some THEN st.bytes ELSE <<>>
        padded == old \o Zeros(offset - Len(old))
    IN SomeV(SubSeq(padded, 1, offset)
                 \o b
                 \o SubSeq(old, offset + Len(b) + 1, Len(old)))

EncResult(status, st, did) == [status |-> status, store |-> st, did |-> did]

(* BytesPartialDecoder::partial_decode of one subset: the byte range of    *)
(* the subset read from the store; an absent chunk gives the fill value    *)
(* repeated, a stored one its bytes with the endianness reversed.          *)
BytesPartialDecode(st, ss) ==
    IF ~st.some THEN Ok(NewFillValue(ss.shape))
    ELSE IF NumBytes(ss.start + ss.shape) > Len(st.bytes) THEN Err
    ELSE Ok(ReverseEndianness(
                SubSeq(st.bytes, NumBytes(ss.start) + 1, NumBytes(ss.start + ss.shape))))

(* ArrayPartialEncoderDefault::partial_encode_opt on the store value st.   *)
ArrayPartialEncoderDefault(st, pairs, storeEmpty) ==
    LET chunk == IF st.some THEN BytesCodecDecode(st.bytes)
                 ELSE Ok(NewFillValue(ChunkLen))
    IN IF ~chunk.ok \/ ~Validate(chunk.bytes) THEN EncResult("err", st, "none")
       ELSE LET updated == UpdateChunk(chunk.bytes, pairs)
            IN IF ~storeEmpty /\ IsFillValue(updated)
               THEN EncResult("ok", NoneV, "erase")
               ELSE EncResult("ok",
                              StorePartialEncode(st, 0, BytesCodecEncode(updated)),
                              "write")

(* ArrayToArrayPartialEncoderDefault::partial_encode_opt.  Its input       *)
(* handle is the partial decoder of the bytes codec, its output handle the *)
(* default partial encoder of the bytes codec.  The branch of a chunk that *)
(* became the fill value is todo!(): the call panics and nothing is        *)
(* erased or written.                                                      *)
ArrayToArrayPartialEncoderDefault(st, pairs, storeEmpty) ==
    LET encoded == BytesPartialDecode(st, ArraySubsetAll)
    IN IF ~encoded.ok \/ ~Validate(ArrayCodecDecode(encoded.bytes))
       THEN EncResult("err", st, "none")
       ELSE LET updated == UpdateChunk(ArrayCodecDecode(encoded.bytes), pairs)
            IN IF ~storeEmpty /\ IsFillValue(updated)
               THEN EncResult("panic", st, "none")
               ELSE ArrayPartialEncoderDefault(
                        st,
                        <<[subset |-> ArraySubsetAll, bytes |-> ArrayCodecEncode(updated)]>>,
                        storeEmpty)

(* The chain's whole-chunk encoding and the decoded chunk read back from   *)
(* the store (an absent chunk reads as the fill value).                    *)
EncodeChain(e, b) ==
    IF e = "a2b" THEN BytesCodecEncode(b) ELSE BytesCodecEncode(ArrayCodecEncode(b))

RetrieveChunk(e, st) ==
    IF ~st.some THEN NewFillValue(ChunkLen)
    ELSE IF e = "a2b" THEN BytesCodecDecode(st.bytes).bytes
    ELSE ArrayCodecDecode(BytesCodecDecode(st.bytes).bytes)

Encoders == {"a2b", "a2a"}
CorruptChunk == SomeV(<<1>>)
LongChunk == SomeV(Zeros(NumBytes(ChunkLen + 1)))
StoredChunks(e) ==
    {NoneV, CorruptChunk, LongChunk}
        \cup {SomeV(EncodeChain(e, b)) : b \in DecodedChunks}

IdleEnc(e, st) ==
    [enc |-> e, store |-> st, status |-> "idle", did |-> "none",
     storeEmpty |-> FALSE, prev |-> NoneV, pairs |-> <<>>]

(* One call of partial_encode_opt on the encoder of the scenario.          *)
PartialEncodeOptWith(pairs, storeEmpty) ==
    \E r \in {IF encv.enc = "a2b"
              THEN ArrayPartialEncoderDefault(encv.store, pairs, storeEmpty)
              ELSE ArrayToArrayPartialEncoderDefault(encv.store, pairs, storeEmpty)} :
        encv' = [enc |-> encv.enc, store |-> r.store, status |-> r.status,
                 did |-> r.did, storeEmpty |-> storeEmpty,
                 prev |-> encv.store, pairs |-> pairs]

PartialEncodeOpt ==
    /\ encv.status = "idle"
    /\ \E pairs \in PairLists, storeEmpty \in BOOLEAN :
           PartialEncodeOptWith(pairs, storeEmpty)
    /\ UNCHANGED <<kind, capacity, cache, waiter, pc, ckey, cval, obs, recency,
                   shardv, arrv>>

(* The call is over (returned or unwound); its arguments are dropped.      *)
EncReturn ==
    /\ encv.status # "idle"
    /\ encv' = IdleEnc(encv.enc, encv.store)
    /\ UNCHANGED <<kind, capacity, cache, waiter, pc, ckey, cval, obs, recency,
                   shardv, arrv>>

IdleCache ==
    /\ kind = "chunk_limit"
    /\ capacity = 1
    /\ FreshCache

InitEnc ==
    /\ IdleCache
    /\ \E e \in Encoders : \E st \in StoredChunks(e) : encv = IdleEnc(e, st)
    /\ shardv = 0
    /\ arrv = 0

NextEnc ==
    \/ PartialEncodeOpt
    \/ EncReturn

SpecEnc == InitEnc /\ [][NextEnc]_vars

(* The decoded chunk before the call with, at every byte, the byte of the  *)
(* last pair whose subset covers the byte's element.                       *)
Covering(pairs, el) ==
    {i \in 1..Len(pairs) :
        el \in pairs[i].subset.start..(pairs[i].subset.start + pairs[i].subset.shape - 1)}
SetMax(S) == CHOOSE x \in S : \A y \in S : y <= x
Overwritten(before, pairs) ==
    [p \in 1..Len(before) |->
        LET el == (p - 1) \div DataTypeSize
            cov == Covering(pairs, el)
        IN IF cov = {} THEN before[p]
           ELSE pairs[SetMax(cov)].bytes[p - NumBytes(pairs[SetMax(cov)].subset.start)]]

(* C2: after a successful default partial encode, the chunk read back from *)
(* the store is the chunk decoded before the call (the fill value if it    *)
(* was absent) with each subset overwritten by its bytes, in the order of  *)
(* the pairs; every element outside all the subsets is as before.  For     *)
(* both default encoders.                                                  *)
C2_PartialOverwrite ==
    encv.status = "ok" =>
        RetrieveChunk(encv.enc, encv.store)
            = Overwritten(RetrieveChunk(encv.enc, encv.prev), encv.pairs)

C2_Witness ==
    /\ encv.status = "ok"
    /\ encv.enc = "a2a"
    /\ encv.prev.some
    /\ Len(encv.pairs) = 2
    /\ encv.pairs[1].subset = encv.pairs[2].subset
    /\ encv.pairs[1].bytes # encv.pairs[2].bytes
    /\ encv.pairs[1].subset.shape < ChunkLen
    /\ ~IsFillValue(RetrieveChunk(encv.enc, encv.prev))
    /\ RetrieveChunk(encv.enc, encv.store) # RetrieveChunk(encv.enc, encv.prev)

UpdatedChunk == UpdateChunk(RetrieveChunk(encv.enc, encv.prev), encv.pairs)

(* C4: a default partial encode whose updated chunk equals the fill value  *)
(* with the store-empty-chunks option off erases the chunk key and writes  *)
(* nothing; any other re-encodes the whole chunk and writes it.  For both  *)
(* default encoders.  The array-to-array encoder breaks it: its erase is   *)
(* todo!().                                                                *)
C4_EmptyChunkElision ==
    encv.status \in {"ok", "panic"} =>
        IF ~encv.storeEmpty /\ IsFillValue(UpdatedChunk)
        THEN encv.did = "erase" /\ encv.store = NoneV
        ELSE encv.did = "write"
             /\ encv.store = SomeV(EncodeChain(encv.enc, UpdatedChunk))

(* The same for the array-to-bytes default encoder alone.                  *)
ArrayToBytesElision == encv.enc = "a2b" => C4_EmptyChunkElision

----------------------------------------------------------------------------
(* The sharding partial encoder.  A shard is one-dimensional and holds     *)
(* NumInner inner chunks of InnerChunkLen elements.  The shard value is a  *)
(* sequence of cells: a cell holds one byte of an encoded inner chunk or   *)
(* one u64 word of the encoded index.  The inner codec is the bytes codec  *)
(* with the non-native endianness; the index codecs are the bytes codec    *)
(* followed by a checksum.                                                 *)

NumInner == 2        \* inner chunks of a shard
InnerChunkLen == 2   \* elements of an inner chunk
MaxShardPairs == 1   \* most (subset, bytes) pairs given to one partial encode
MaxShardSlots == 3   \* most encoded inner chunks the shard value has room for

(* Stands for u64::MAX; no offset or size of the model comes near it.      *)
U64Max == -1

ShardLen == NumInner * InnerChunkLen
InnerEncodedLen == NumBytes(InnerChunkLen)
IndexWords == 2 * NumInner
IndexEncodedSize == IndexWords + 1
MaxShardBytes == IndexEncodedSize + MaxShardSlots * InnerEncodedLen

InnerChunks == 0..(NumInner - 1)
IndexLocations == {"Start", "End"}

ShardSubsets ==
    {ss \in [start : 0..(ShardLen - 1), shape : 1..ShardLen] :
        ss.start + ss.shape <= ShardLen}
ShardPairs ==
    UNION {{[subset |-> ss, bytes |-> b] : b \in ElementSeqs(ss.shape)} :
              ss \in ShardSubsets}

SentinelIndex == [i \in 1..IndexWords |-> U64Max]
IndexOffset(index, j) == index[2 * j + 1]
IndexSize(index, j) == index[2 * j + 2]
IsSentinel(index, j) == IndexOffset(index, j) = U64Max /\ IndexSize(index, j) = U64Max
SetEntry(index, j, offset, size) ==
    [index EXCEPT ![2 * j + 1] = offset, ![2 * j + 2] = size]

(* The index codecs: the words, then a checksum over them.  The checksum   *)
(* is injective on the indexes a shard value of MaxShardBytes cells can    *)
(* hold: the words read as the digits of a number.                         *)
WordOk(w) == w = U64Max \/ w \in 0..MaxShardBytes
RECURSIVE Digits(_, _)
Digits(ws, i) ==
    IF i > Len(ws) THEN 0
    ELSE (IF ws[i] = U64Max THEN 0 ELSE ws[i] + 1)
             + (MaxShardBytes + 2) * Digits(ws, i + 1)
Checksum(ws) == Digits(ws, 1)
IndexCodecEncode(index) == index \o <<Checksum(index)>>
IndexCodecDecode(b) ==
    IF /\ Len(b) = IndexEncodedSize
       /\ \A i \in 1..IndexWords : WordOk(b[i])
       /\ b[IndexEncodedSize] = Checksum(SubSeq(b, 1, IndexWords))
    THEN Ok(SubSeq(b, 1, IndexWords))
    ELSE Err

(* The inner codecs.                                                       *)
InnerCodecEncode(b) == ReverseEndianness(b)
InnerCodecDecode(b) ==
    IF Len(b) % DataTypeSize = 0 THEN Ok(ReverseEndianness(b)) ELSE Err

(* input_handle.partial_decode of one byte range from the start: None for  *)
(* an absent value, an error for a range that runs past its end.           *)
Absent == [ok |-> TRUE, some |-> FALSE, bytes |-> <<>>]
Present(b) == [ok |-> TRUE, some |-> TRUE, bytes |-> b]
Failed == [ok |-> FALSE, some |-> FALSE, bytes |-> <<>>]

StorePartialDecode(st, offset, size) ==
    IF ~st.some THEN Absent
    ELSE IF offset < 0 \/ size < 0 \/ offset + size > Len(st.bytes) THEN Failed
    ELSE Present(SubSeq(st.bytes, offset + 1, offset + size))

(* decode_shard_index_partial_decoder: the encoded index read from its     *)
(* location, the first or the last bytes of the shard value, and decoded.  *)
DecodeShardIndex(st, loc) ==
    IF ~st.some THEN Absent
    ELSE IF Len(st.bytes) < IndexEncodedSize THEN Failed
    ELSE LET b == IF loc = "Start"
                  THEN SubSeq(st.bytes, 1, IndexEncodedSize)
                  ELSE SubSeq(st.bytes, Len(st.bytes) - IndexEncodedSize + 1,
                              Len(st.bytes))
         IN IF IndexCodecDecode(b).ok THEN Present(IndexCodecDecode(b).bytes)
            ELSE Failed

(* The chunk grid of the shard and the subset algebra, one-dimensional.    *)
InnerChunkSubset(j) == [start |-> j * InnerChunkLen, shape |-> InnerChunkLen]
ChunksInArraySubset(ss) ==
    (ss.start \div InnerChunkLen)..((ss.start + ss.shape - 1) \div InnerChunkLen)
Overlap(a, b) ==
    [start |-> Max(a.start, b.start),
     shape |-> Min(a.start + a.shape, b.start + b.shape) - Max(a.start, b.start)]
RelativeTo(ss, origin) == [start |-> ss.start - origin, shape |-> ss.shape]
ExtractArraySubset(b, ss) ==
    SubSeq(b, NumBytes(ss.start) + 1, NumBytes(ss.start + ss.shape))

(* As DecodeInnerChunk, but an inner chunk with the sentinel entry comes   *)
(* out as a chunk of the other element value, not of the fill value.       *)
DecodeInnerChunkSentinelNotFill(st, offset, size) ==
    IF offset = U64Max /\ size = U64Max
    THEN Ok(Flatten([i \in 1..InnerChunkLen |-> <<1, 0>>]))
    ELSE LET encoded == StorePartialDecode(st, offset, size)
         IN IF ~encoded.ok THEN Err
            ELSE IF ~encoded.some THEN Ok(NewFillValue(InnerChunkLen))
            ELSE InnerCodecDecode(encoded.bytes)

(* The decoded inner chunk behind an index entry: the fill value for the   *)
(* sentinel and for an absent shard, else the decoded bytes of its range.  *)
DecodeInnerChunk(st, offset, size) ==
    IF offset = U64Max /\ size = U64Max THEN Ok(NewFillValue(InnerChunkLen))
    ELSE LET encoded == StorePartialDecode(st, offset, size)
         IN IF ~encoded.ok THEN Err
            ELSE IF ~encoded.some THEN Ok(NewFillValue(InnerChunkLen))
            ELSE InnerCodecDecode(encoded.bytes)

(* As TouchInnerChunk, but the inner chunk is decoded from the shard at   *)
(* every pair that touches it, not taken from the updated inner chunks.    *)
TouchInnerChunkDecodesAgain(acc, st, pair, j) ==
    LET decoded == DecodeInnerChunk(st, IndexOffset(acc.index, j),
                                    IndexSize(acc.index, j))
        overlap == Overlap(pair.subset, InnerChunkSubset(j))
        innerBytes == ExtractArraySubset(pair.bytes,
                                         RelativeTo(overlap, pair.subset.start))
        reads == IF ~IsSentinel(acc.index, j) THEN Append(acc.reads, j)
                 ELSE acc.reads
    IN IF ~acc.ok \/ ~decoded.ok THEN [acc EXCEPT !.ok = FALSE, !.reads = reads]
       ELSE [ok |-> TRUE,
             index |-> SetEntry(acc.index, j, U64Max, U64Max),
             updated |-> Put(acc.updated, j,
                             UpdateArrayBytes(decoded.bytes, innerBytes,
                                              RelativeTo(overlap,
                                                         InnerChunkSubset(j).start))),
             reads |-> reads]

(* The first loop of partial_encode_opt, for one inner chunk j of one      *)
(* pair.  acc: the shard index, the updated inner chunks, whether a decode *)
(* has failed, and the inner chunks read from the shard so far.  An inner  *)
(* chunk met for the first time is decoded and its index entry is set to   *)
(* the sentinel for the time being.                                        *)
Acc(ok, index, updated, reads) ==
    [ok |-> ok, index |-> index, updated |-> updated, reads |-> reads]

TouchInnerChunk(acc, st, pair, j) ==
    LET vacant == j \notin DOMAIN acc.updated
        decoded == IF vacant
                   THEN DecodeInnerChunk(st, IndexOffset(acc.index, j),
                                         IndexSize(acc.index, j))
                   ELSE Ok(acc.updated[j])
        overlap == Overlap(pair.subset, InnerChunkSubset(j))
        innerBytes == ExtractArraySubset(pair.bytes,
                                         RelativeTo(overlap, pair.subset.start))
        reads == IF vacant /\ ~IsSentinel(acc.index, j)
                 THEN Append(acc.reads, j)
                 ELSE acc.reads
    IN IF ~acc.ok \/ ~decoded.ok THEN Acc(FALSE, acc.index, acc.updated, reads)
       ELSE Acc(TRUE,
                IF vacant THEN SetEntry(acc.index, j, U64Max, U64Max) ELSE acc.index,
                Put(acc.updated, j,
                    UpdateArrayBytes(decoded.bytes, innerBytes,
                                     RelativeTo(overlap, InnerChunkSubset(j).start))),
                reads)

RECURSIVE TouchInnerChunksFrom(_, _, _, _, _)
TouchInnerChunksFrom(acc, st, pair, j, last) ==
    IF j > last THEN acc
    ELSE TouchInnerChunksFrom(TouchInnerChunk(acc, st, pair, j), st, pair, j + 1, last)

RECURSIVE UpdateInnerChunks(_, _, _)
UpdateInnerChunks(acc, st, pairs) ==
    IF pairs = <<>> THEN acc
    ELSE UpdateInnerChunks(
             TouchInnerChunksFrom(acc, st, Head(pairs),
                                  Head(pairs).subset.start \div InnerChunkLen,
                                  (Head(pairs).subset.start + Head(pairs).subset.shape - 1)
                                      \div InnerChunkLen),
             st, Tail(pairs))

EntryEnd(index, j) ==
    IF IsSentinel(index, j) THEN 0 ELSE IndexOffset(index, j) + IndexSize(index, j)

(* As MaxDataOffset, but only the first entry of the index is looked at.   *)
MaxDataOffsetFirstEntry(index) == EntryEnd(index, 0)

(* The largest end of the encoded inner chunks the index still points to.  *)
MaxDataOffset(index) ==
    SetMax({EntryEnd(index, j) : j \in InnerChunks})

OffsetAppend(index, loc) ==
    IF loc = "Start" THEN Max(MaxDataOffset(index), IndexEncodedSize)
    ELSE MaxDataOffset(index)

(* The second loop: each updated inner chunk, in the iteration order of    *)
(* the HashMap, encoded and written at the append offset.                  *)
Written(st, index, offset, log) ==
    [store |-> st, index |-> index, offset |-> offset, log |-> log]
WriteLog(what, j, offset, len) ==
    [what |-> what, j |-> j, offset |-> offset, len |-> len]

(* As WriteInnerChunk, but an inner chunk that is the fill value is not    *)
(* written and its index entry stays the sentinel.                         *)
WriteInnerChunkElidesFill(w, j, decoded) ==
    LET encoded == InnerCodecEncode(decoded)
    IN IF decoded = NewFillValue(InnerChunkLen) THEN w
       ELSE Written(StorePartialEncode(w.store, w.offset, encoded),
                    SetEntry(w.index, j, w.offset, Len(encoded)),
                    w.offset + Len(encoded),
                    Append(w.log, WriteLog("chunk", j, w.offset, Len(encoded))))

(* As WriteInnerChunk, but the append offset does not advance.             *)
WriteInnerChunkSameOffset(w, j, decoded) ==
    LET encoded == InnerCodecEncode(decoded)
    IN Written(StorePartialEncode(w.store, w.offset, encoded),
               SetEntry(w.index, j, w.offset, Len(encoded)),
               w.offset,
               Append(w.log, WriteLog("chunk", j, w.offset, Len(encoded))))

WriteInnerChunk(w, j, decoded) ==
    LET encoded == InnerCodecEncode(decoded)
    IN Written(StorePartialEncode(w.store, w.offset, encoded),
               SetEntry(w.index, j, w.offset, Len(encoded)),
               w.offset + Len(encoded),
               Append(w.log, WriteLog("chunk", j, w.offset, Len(encoded))))

RECURSIVE WriteInnerChunks(_, _, _)
WriteInnerChunks(w, updated, order) ==
    IF order = <<>> THEN w
    ELSE WriteInnerChunks(WriteInnerChunk(w, Head(order), updated[Head(order)]),
                          updated, Tail(order))

(* As WriteShardIndex, but the index goes to offset 0 for both locations.  *)
WriteShardIndexAtZero(w, loc) ==
    Written(StorePartialEncode(w.store, 0, IndexCodecEncode(w.index)),
            w.index, w.offset,
            Append(w.log, WriteLog("index", 0, 0, IndexEncodedSize)))

(* The last step: the index encoded and written at its location.           *)
WriteShardIndex(w, loc) ==
    LET at == IF loc = "Start" THEN 0 ELSE w.offset
    IN Written(StorePartialEncode(w.store, at, IndexCodecEncode(w.index)),
               w.index, w.offset,
               Append(w.log, WriteLog("index", 0, at, IndexEncodedSize)))

ShardResult(status, w) ==
    [status |-> status, store |-> w.store, index |-> w.index, log |-> w.log]

(* ShardingPartialEncoder::partial_encode_opt on the shard value st.       *)
ShardingPartialEncoder(st, loc, pairs, order) ==
    LET read == DecodeShardIndex(st, loc)
        index0 == IF read.some THEN read.bytes ELSE SentinelIndex
        acc == UpdateInnerChunks(Acc(TRUE, index0, EmptyFn, <<>>), st, pairs)
    IN IF ~read.ok \/ ~acc.ok
       THEN ShardResult("err", Written(st, index0, 0, <<>>))
       ELSE ShardResult("ok",
                WriteShardIndex(
                    WriteInnerChunks(
                        Written(st, acc.index, OffsetAppend(acc.index, loc), <<>>),
                        acc.updated, order),
                    loc))

(* The inner chunks a request touches, and the orders in which the HashMap *)
(* may hand them to the second loop.                                       *)
InnerChunksTouched(pairs) ==
    UNION {ChunksInArraySubset(pairs[i].subset) : i \in 1..Len(pairs)}
Orders(S) ==
    {o \in [1..Cardinality(S) -> S] : \A i, k \in 1..Cardinality(S) : i # k => o[i] # o[k]}

IdleShard(loc, st) ==
    [loc |-> loc, store |-> st, status |-> "idle", prev |-> NoneV,
     pairs |-> <<>>, index |-> <<>>, log |-> <<>>]

(* One call of partial_encode_opt on the sharding partial encoder.  The    *)
(* shard value has room for MaxShardBytes cells.                           *)
ShardPartialEncodeOptWith(pairs, order) ==
    \E r \in {ShardingPartialEncoder(shardv.store, shardv.loc, pairs, order)} :
        /\ r.store.some => Len(r.store.bytes) <= MaxShardBytes
        /\ shardv' = [loc |-> shardv.loc, store |-> r.store, status |-> r.status,
                      prev |-> shardv.store, pairs |-> pairs,
                      index |-> r.index, log |-> r.log]

ShardPartialEncodeOpt ==
    /\ shardv.status = "idle"
    /\ \E n \in 0..MaxShardPairs : \E pairs \in [1..n -> ShardPairs] :
           \E order \in Orders(InnerChunksTouched(pairs)) :
               ShardPartialEncodeOptWith(pairs, order)
    /\ UNCHANGED <<kind, capacity, cache, waiter, pc, ckey, cval, obs, recency,
                   encv, arrv>>

(* The call is over; its arguments are dropped.                            *)
ShardReturn ==
    /\ shardv.status # "idle"
    /\ shardv' = IdleShard(shardv.loc, shardv.store)
    /\ UNCHANGED <<kind, capacity, cache, waiter, pc, ckey, cval, obs, recency,
                   encv, arrv>>

InitShard ==
    /\ IdleCache
    /\ encv = 0
    /\ arrv = 0
    /\ \E loc \in IndexLocations : shardv = IdleShard(loc, NoneV)

NextShard ==
    \/ ShardPartialEncodeOpt
    \/ ShardReturn

SpecShard == InitShard /\ [][NextShard]_vars

(* Reading a shard back: its index from the index location (all sentinel  *)
(* for an absent shard), and each inner chunk through that index.          *)
ReadShardIndex(st, loc) ==
    IF DecodeShardIndex(st, loc).some THEN DecodeShardIndex(st, loc).bytes
    ELSE SentinelIndex

ReadInnerChunk(st, loc, j) ==
    DecodeInnerChunk(st, IndexOffset(ReadShardIndex(st, loc), j),
                     IndexSize(ReadShardIndex(st, loc), j))

RetrieveShard(st, loc) ==
    Flatten([i \in 1..NumInner |-> ReadInnerChunk(st, loc, i - 1).bytes])

Readable(st, loc) ==
    /\ DecodeShardIndex(st, loc).ok
    /\ \A j \in InnerChunks : ReadInnerChunk(st, loc, j).ok

ShardTouched == InnerChunksTouched(shardv.pairs)

(* C3: after a successful sharding partial encode that touches one inner   *)
(* chunk, the shard reads back as before with the request's subset         *)
(* overwritten, every other inner chunk decodes through the new index to   *)
(* what it decoded to before, the index entry of the touched inner chunk   *)
(* is the offset and length at which its new encoding was written, and     *)
(* every untouched sentinel entry is still the sentinel.                   *)
C3_ShardingPartialWrite ==
    (shardv.status = "ok" /\ Cardinality(ShardTouched) = 1) =>
        /\ Readable(shardv.store, shardv.loc)
        /\ RetrieveShard(shardv.store, shardv.loc)
               = Overwritten(RetrieveShard(shardv.prev, shardv.loc), shardv.pairs)
        /\ \A j \in InnerChunks \ ShardTouched :
               /\ ReadInnerChunk(shardv.store, shardv.loc, j)
                      = ReadInnerChunk(shardv.prev, shardv.loc, j)
               /\ IsSentinel(ReadShardIndex(shardv.prev, shardv.loc), j)
                      => IsSentinel(ReadShardIndex(shardv.store, shardv.loc), j)
        /\ \A j \in ShardTouched :
               \E i \in 1..Len(shardv.log) :
                   /\ shardv.log[i] = WriteLog("chunk", j,
                          IndexOffset(ReadShardIndex(shardv.store, shardv.loc), j),
                          IndexSize(ReadShardIndex(shardv.store, shardv.loc), j))
                   /\ StorePartialDecode(shardv.store, shardv.log[i].offset,
                                         shardv.log[i].len).bytes
                          = InnerCodecEncode(
                                ReadInnerChunk(shardv.store, shardv.loc, j).bytes)

(* An inner chunk that was stored before is partly overwritten, next to    *)
(* another stored inner chunk that does not hold the fill value.           *)
C3_Witness ==
    /\ shardv.status = "ok"
    /\ shardv.prev.some
    /\ Len(shardv.pairs) = 1
    /\ shardv.pairs[1].subset.shape < InnerChunkLen
    /\ Cardinality(ShardTouched) = 1
    /\ \A j \in InnerChunks :
           /\ ~IsSentinel(ReadShardIndex(shardv.prev, shardv.loc), j)
           /\ ~IsFillValue(ReadInnerChunk(shardv.prev, shardv.loc, j).bytes)
    /\ RetrieveShard(shardv.store, shardv.loc) # RetrieveShard(shardv.prev, shardv.loc)
    /\ shardv.loc = "End"

----------------------------------------------------------------------------
(* The cached retrieval methods of Array with an encoded chunk cache.  The *)
(* array is two-dimensional with a regular chunk grid, as in the tests of  *)
(* array_chunk_cache_ext_encoded_sync.rs: element (r, c) holds its         *)
(* row-major index, the data type has DataTypeSize bytes and the codec     *)
(* chain is the bytes codec with the non-native endianness.  A chunk the   *)
(* store does not hold reads as the fill value.                            *)

ArrayRows == 4      \* rows of the array
ArrayCols == 4      \* columns of the array
ChunkRows == 2      \* rows of a chunk
ChunkCols == 2      \* columns of a chunk

ArrayShape == <<ArrayRows, ArrayCols>>
ChunkShape == <<ChunkRows, ChunkCols>>
ChunkElements == ChunkRows * ChunkCols
ChunkBytes == NumBytes(ChunkElements)

CeilDiv(a, b) == (a + b - 1) \div b
GridShape == <<CeilDiv(ArrayRows, ChunkRows), CeilDiv(ArrayCols, ChunkCols)>>
ChunkGrid == (0..(GridShape[1] - 1)) \X (0..(GridShape[2] - 1))
LastChunk == <<GridShape[1] - 1, GridShape[2] - 1>>

(* ArraySubset in two dimensions: start and shape.                         *)
Subset2(start, shape) == [start |-> start, shape |-> shape]
NumElements(ss) == ss.shape[1] * ss.shape[2]
EndExc(ss, d) == ss.start[d] + ss.shape[d]

(* The subsets inside the array, none of them empty.                       *)
ArraySubsets ==
    {Subset2(<<r, c>>, <<h, w>>) :
        r \in 0..(ArrayRows - 1), c \in 0..(ArrayCols - 1),
        h \in 1..ArrayRows, w \in 1..ArrayCols}
InArraySubsets == {ss \in ArraySubsets :
                      EndExc(ss, 1) <= ArrayRows /\ EndExc(ss, 2) <= ArrayCols}

(* Subsets without an element: a shape of 0 along one axis.                *)
EmptySubsets ==
    {Subset2(<<0, 0>>, <<0, ArrayCols>>), Subset2(<<1, 1>>, <<ArrayRows - 1, 0>>)}

(* Array::chunk_subset: the region of the array a chunk covers.            *)
ChunkSubset(k) == Subset2(<<k[1] * ChunkRows, k[2] * ChunkCols>>, ChunkShape)

(* Array::chunks_in_array_subset: per axis, the chunks from the one that   *)
(* holds the subset's first element to the one that holds its last; no     *)
(* chunk for a subset without an element.                                  *)
ChunksInArraySubset2(ss) ==
    {k \in ChunkGrid :
        /\ NumElements(ss) > 0
        /\ k[1] \in (ss.start[1] \div ChunkRows)..((EndExc(ss, 1) - 1) \div ChunkRows)
        /\ k[2] \in (ss.start[2] \div ChunkCols)..((EndExc(ss, 2) - 1) \div ChunkCols)}

(* ArraySubset::overlap of two subsets that intersect.                     *)
Overlap2(a, b) ==
    LET r0 == Max(a.start[1], b.start[1])
        c0 == Max(a.start[2], b.start[2])
    IN Subset2(<<r0, c0>>,
               <<Min(EndExc(a, 1), EndExc(b, 1)) - r0,
                 Min(EndExc(a, 2), EndExc(b, 2)) - c0>>)

(* ArraySubset::relative_to.                                               *)
RelativeTo2(ss, origin) ==
    Subset2(<<ss.start[1] - origin[1], ss.start[2] - origin[2]>>, ss.shape)

(* The i-th element (from 0) of a subset in row-major order.               *)
SubsetRow(ss, i) == ss.start[1] + (i \div ss.shape[2])
SubsetCol(ss, i) == ss.start[2] + (i % ss.shape[2])

(* The bytes of element e (from 0) of a buffer.                            *)
ElementAt(b, e) == SubSeq(b, NumBytes(e) + 1, NumBytes(e + 1))

(* ArrayBytes::extract_array_subset for a fixed-width data type: the byte  *)
(* ranges of the subset in an array of the given shape, concatenated.  A   *)
(* subset that does not lie inside the shape is an error.                  *)
ExtractArraySubset2(b, ss, shape) ==
    IF EndExc(ss, 1) > shape[1] \/ EndExc(ss, 2) > shape[2] THEN Err
    ELSE IF NumBytes(shape[1] * shape[2]) > Len(b) THEN Err
    ELSE Ok(Flatten([i \in 1..NumElements(ss) |->
                ElementAt(b, SubsetRow(ss, i - 1) * shape[2] + SubsetCol(ss, i - 1))]))

(* A buffer allocated with its capacity and not yet written.               *)
Uninit == -1
RECURSIVE Uninitialised(_)
Uninitialised(n) == IF n <= 0 THEN <<>> ELSE <<Uninit>> \o Uninitialised(n - 1)

(* update_bytes_flen: the elements of the subset of an output buffer of    *)
(* the given shape overwritten with the elements of b, in row-major order. *)
UpdateBytesFlen(output, shape, b, ss) ==
    [p \in 1..Len(output) |->
        LET e == (p - 1) \div DataTypeSize
            r == e \div shape[2]
            c == e % shape[2]
        IN IF /\ r \in ss.start[1]..(EndExc(ss, 1) - 1)
              /\ c \in ss.start[2]..(EndExc(ss, 2) - 1)
           THEN b[NumBytes((r - ss.start[1]) * ss.shape[2] + (c - ss.start[2]))
                      + ((p - 1) % DataTypeSize) + 1]
           ELSE output[p]]

(* The data of the array: element (r, c) holds r * ArrayCols + c, in       *)
(* little-endian bytes; an element of a chunk beyond the array's edge      *)
(* holds the fill value.                                                   *)
RECURSIVE ToLeBytes(_, _)
ToLeBytes(v, n) == IF n = 0 THEN <<>> ELSE <<v % 256>> \o ToLeBytes(v \div 256, n - 1)
ElementValue(r, c) == r * ArrayCols + c
ElementBytes(r, c) ==
    IF r < ArrayRows /\ c < ArrayCols
    THEN ToLeBytes(ElementValue(r, c), DataTypeSize)
    ELSE FillValue

(* The decoded chunk and the value stored under its key.                   *)
DecodedChunk(k) ==
    Flatten([i \in 1..ChunkElements |->
                ElementBytes(SubsetRow(ChunkSubset(k), i - 1),
                             SubsetCol(ChunkSubset(k), i - 1))])
EncodedChunk(k) == BytesCodecEncode(DecodedChunk(k))

(* The codec chain's decode of a whole chunk, and ArrayBytes::validate.    *)
CodecsDecode(b) ==
    IF Len(b) % DataTypeSize = 0 THEN Ok(ReverseEndianness(b)) ELSE Err
ValidateChunk(b) == Len(b) = NumBytes(ChunkElements)

(* Array::retrieve_encoded_chunk: one read of the whole value under the    *)
(* chunk's key; None when the store does not hold the key.                 *)
RetrieveEncodedChunk(stored, k) ==
    IF k \in stored THEN SomeV(EncodedChunk(k)) ELSE NoneV

(* As DecodeEncoded, but an absent chunk is an error.                      *)
DecodeEncodedAbsentIsError(encoded) ==
    IF encoded.some
    THEN LET d == CodecsDecode(encoded.bytes)
         IN IF d.ok /\ ValidateChunk(d.bytes) THEN d ELSE Err
    ELSE Err

(* retrieve_chunk_opt_cached, after the cache gave the encoded chunk: a    *)
(* stored chunk is decoded and validated, an absent one is the fill value. *)
DecodeEncoded(encoded) ==
    IF encoded.some
    THEN LET d == CodecsDecode(encoded.bytes)
         IN IF d.ok /\ ValidateChunk(d.bytes) THEN d ELSE Err
    ELSE Ok(NewFillValue(ChunkElements))

(* What one cached retrieval of a chunk did: the cache after it, the reads *)
(* it made of the store, the decoded chunk.                                *)
CachedChunk(c, reads, bytes) == [cache |-> c, reads |-> reads, bytes |-> bytes]

(* As RetrieveChunkOptCached, but the chunk read on a miss is not placed   *)
(* in the cache.                                                           *)
RetrieveChunkOptCachedNoInsert(c, stored, k) ==
    IF k \in DOMAIN c.map
    THEN CachedChunk(CacheGet(c, k), <<>>, DecodeEncoded(c.map[k]))
    ELSE CachedChunk(c, <<"get">>, DecodeEncoded(RetrieveEncodedChunk(stored, k)))

(* As RetrieveChunkOptCached, but the store is read on a hit as well.      *)
RetrieveChunkOptCachedAlwaysReads(c, stored, k) ==
    IF k \in DOMAIN c.map
    THEN CachedChunk(CacheGet(c, k), <<"get">>, DecodeEncoded(c.map[k]))
    ELSE CachedChunk(CacheInsert(c, k, RetrieveEncodedChunk(stored, k)), <<"get">>,
                     DecodeEncoded(RetrieveEncodedChunk(stored, k)))

(* As RetrieveChunkOptCached, but a hit reads the store again and puts    *)
(* what it reads in the place of the entry.                                *)
RetrieveChunkOptCachedRefreshes(c, stored, k) ==
    CachedChunk(CacheInsert(c, k, RetrieveEncodedChunk(stored, k)), <<"get">>,
                DecodeEncoded(RetrieveEncodedChunk(stored, k)))

(* retrieve_chunk_opt_cached: try_get_or_insert_with on the chunk's key    *)
(* with a thunk that reads the encoded chunk from the store.  moka runs    *)
(* the thunk on a miss only and inserts what it returned.                  *)
RetrieveChunkOptCached(c, stored, k) ==
    IF k \in DOMAIN c.map
    THEN CachedChunk(CacheGet(c, k), <<>>, DecodeEncoded(c.map[k]))
    ELSE CachedChunk(CacheInsert(c, k, RetrieveEncodedChunk(stored, k)), <<"get">>,
                     DecodeEncoded(RetrieveEncodedChunk(stored, k)))

(* retrieve_chunk_subset_opt_cached, after the chunk was retrieved: the    *)
(* subset is extracted with the subset's own shape given as the shape of   *)
(* the array the bytes hold.                                               *)
RetrieveChunkSubsetOptCached(chunk, chunkSubset) ==
    IF ~chunk.ok THEN Err
    ELSE ExtractArraySubset2(chunk.bytes, chunkSubset, chunkSubset.shape)

(* update_output of the multi-chunk path for one chunk: the overlap of the *)
(* chunk with the subset, extracted from the chunk unless it is the whole  *)
(* chunk, copied into the output at the overlap's place in the subset.     *)
UpdateOutput(output, ss, k, chunk) ==
    LET chunkSubset == ChunkSubset(k)
        overlap == Overlap2(chunkSubset, ss)
        sub == IF overlap = chunkSubset THEN Ok(chunk)
               ELSE ExtractArraySubset2(chunk, RelativeTo2(overlap, chunkSubset.start),
                                        chunkSubset.shape)
    IN IF ~output.ok \/ ~sub.ok THEN Err
       ELSE Ok(UpdateBytesFlen(output.bytes, ss.shape, sub.bytes,
                               RelativeTo2(overlap, ss.start)))

RECURSIVE ScatterChunks(_, _, _, _)
ScatterChunks(output, ss, fetched, todo) ==
    IF todo = {} THEN output
    ELSE LET k == CHOOSE x \in todo : TRUE
         IN ScatterChunks(UpdateOutput(output, ss, k, fetched[k].bytes.bytes),
                          ss, fetched, todo \ {k})

(* retrieve_array_subset_opt_cached, after the chunks were retrieved: no   *)
(* chunk gives the fill value for every element of the subset, one chunk   *)
(* that is the subset is returned whole, one chunk that holds the subset   *)
(* gives its subset, several chunks are copied into one output buffer; a   *)
(* chunk that failed fails the call.                                       *)
AssembleSubset(ss, fetched) ==
    IF Cardinality(DOMAIN fetched) = 0 THEN Ok(NewFillValue(NumElements(ss)))
    ELSE IF Cardinality(DOMAIN fetched) = 1
    THEN LET k == CHOOSE x \in DOMAIN fetched : TRUE
         IN IF ChunkSubset(k) = ss THEN fetched[k].bytes
            ELSE RetrieveChunkSubsetOptCached(fetched[k].bytes,
                                              RelativeTo2(ss, ChunkSubset(k).start))
    ELSE IF \E k \in DOMAIN fetched : ~fetched[k].bytes.ok THEN Err
    ELSE ScatterChunks(Ok(Uninitialised(NumBytes(NumElements(ss)))), ss, fetched,
                       DOMAIN fetched)

----------------------------------------------------------------------------
(* The scenario: one thread calls the cached retrieval methods one after   *)
(* the other on an array whose store nobody writes.  arrv holds the chunks *)
(* the store holds, the running or last call, and what is known of the     *)
(* call before it.                                                         *)

NoReads == [k \in ChunkGrid |-> <<>>]
NoPrev == [some |-> FALSE, key |-> <<0, 0>>, result |-> Err]

ArrIdle(stored) ==
    [stored |-> stored, status |-> "idle", op |-> "none", key |-> <<0, 0>>,
     subset |-> Subset2(<<0, 0>>, <<1, 1>>), pending |-> {}, fetched |-> EmptyFn,
     reads |-> NoReads, cached0 |-> {}, result |-> Err, prev |-> NoPrev]

(* What is known of a call once it has returned.                           *)
Summary(a) ==
    IF a.status = "done" /\ a.op = "chunk"
    THEN [some |-> TRUE, key |-> a.key, result |-> a.result]
    ELSE NoPrev

Fetched(hit, bytes) == [hit |-> hit, bytes |-> bytes]

(* A call of retrieve_chunk_opt_cached.                                    *)
RetrieveChunkOptCachedCall(k) ==
    /\ arrv.status = "idle"
    /\ Room
    /\ \E r \in {RetrieveChunkOptCached(cache, arrv.stored, k)} :
           /\ cache' = r.cache
           /\ arrv' = [stored |-> arrv.stored, status |-> "done", op |-> "chunk",
                       key |-> k, subset |-> ChunkSubset(k), pending |-> {},
                       fetched |-> Put(EmptyFn, k, Fetched(k \in DOMAIN cache.map, r.bytes)),
                       reads |-> [NoReads EXCEPT ![k] = r.reads],
                       cached0 |-> DOMAIN cache.map,
                       result |-> r.bytes, prev |-> arrv.prev]
    /\ UNCHANGED <<kind, capacity, waiter, pc, ckey, cval, obs, recency, encv, shardv>>

(* A call of retrieve_array_subset_opt_cached, up to the point where the   *)
(* chunks that intersect the subset are known.                             *)
RetrieveArraySubsetOptCached(ss) ==
    /\ arrv.status = "idle"
    /\ arrv' = [stored |-> arrv.stored, status |-> "fetch", op |-> "subset",
                key |-> <<0, 0>>, subset |-> ss, pending |-> ChunksInArraySubset2(ss),
                fetched |-> EmptyFn, reads |-> NoReads,
                cached0 |-> DOMAIN (Housekeep(cache)).map,
                result |-> Err, prev |-> NoPrev]
    /\ UNCHANGED <<kind, capacity, cache, waiter, pc, ckey, cval, obs, recency,
                   encv, shardv>>

(* The retrieval of one of the call's chunks: the call itself when there   *)
(* is one chunk, a worker of the fan-out when there are several, in any    *)
(* order.                                                                  *)
FetchChunk(k) ==
    /\ arrv.status = "fetch"
    /\ k \in arrv.pending
    /\ Room
    /\ \E r \in {RetrieveChunkOptCached(cache, arrv.stored, k)} :
           /\ cache' = r.cache
           /\ arrv' = [arrv EXCEPT
                          !.pending = @ \ {k},
                          !.fetched = Put(@, k, Fetched(k \in DOMAIN cache.map, r.bytes)),
                          !.reads[k] = @ \o r.reads]
    /\ UNCHANGED <<kind, capacity, waiter, pc, ckey, cval, obs, recency, encv, shardv>>

(* All chunks are there: the result is put together and returned.          *)
Assemble ==
    /\ arrv.status = "fetch"
    /\ arrv.pending = {}
    /\ arrv' = [arrv EXCEPT !.status = "done",
                            !.result = AssembleSubset(arrv.subset, arrv.fetched)]
    /\ UNCHANGED <<kind, capacity, cache, waiter, pc, ckey, cval, obs, recency,
                   encv, shardv>>

(* The call has returned: its arguments and its result are dropped; the    *)
(* next call still knows which chunk the last call retrieved, and what it  *)
(* returned.                                                               *)
ArrReturn ==
    /\ arrv.status = "done"
    /\ arrv' = [ArrIdle(arrv.stored) EXCEPT !.prev = Summary(arrv)]
    /\ UNCHANGED <<kind, capacity, cache, waiter, pc, ckey, cval, obs, recency,
                   encv, shardv>>

ErasedChunks == {{}, {LastChunk}}

(* The capacities given to new(): a number of chunks, or the bytes of a    *)
(* number of whole chunks; the smallest size limit is a byte short of one  *)
(* chunk.                                                                  *)
ArrayCapacities(kd) ==
    IF kd = "size_limit"
    THEN {ChunkBytes - 1} \cup {n * ChunkBytes : n \in 1..MaxCapacity}
    ELSE 0..MaxCapacity

InitArray ==
    /\ kind \in {"chunk_limit", "size_limit"}
    /\ capacity \in ArrayCapacities(kind)
    /\ FreshCache
    /\ encv = 0
    /\ shardv = 0
    /\ \E erased \in ErasedChunks : arrv = ArrIdle(ChunkGrid \ erased)

NextArray ==
    \/ \E k \in ChunkGrid : RetrieveChunkOptCachedCall(k)
    \/ \E ss \in InArraySubsets \cup EmptySubsets : RetrieveArraySubsetOptCached(ss)
    \/ \E k \in ChunkGrid : FetchChunk(k)
    \/ Assemble
    \/ ArrReturn
    \/ Housekeeping

SpecArray == InitArray /\ [][NextArray]_vars

----------------------------------------------------------------------------
(* Properties of the cached retrieval.                                     *)

CallChunks == IF arrv.op = "chunk" THEN {arrv.key} ELSE ChunksInArraySubset2(arrv.subset)
ReadChunks == {k \in ChunkGrid : arrv.reads[k] # <<>>}

(* The cache can hold the chunk: its weight is within the capacity.        *)
CanHold(k) == Weigher(kind, RetrieveEncodedChunk(arrv.stored, k)) <= capacity

SameChunkAgain ==
    /\ arrv.status = "done"
    /\ arrv.op = "chunk"
    /\ arrv.prev.some
    /\ arrv.prev.key = arrv.key

(* C8, as stated: of two consecutive cached retrievals of one chunk with   *)
(* no write between them, the second returns the bytes of the first and    *)
(* reads nothing from the store.                                           *)
C8_ReadOnlyCoherence ==
    SameChunkAgain => (arrv.result = arrv.prev.result /\ ReadChunks = {})

(* C8, amended: of two consecutive cached retrievals of one chunk with no  *)
(* write between them, the second returns the bytes of the first; it reads *)
(* nothing from the store when the cache can hold the chunk (a capacity of *)
(* at least one chunk, or of at least the chunk's encoded length).         *)
C8_CoherenceWhenHeld ==
    SameChunkAgain =>
        /\ arrv.result = arrv.prev.result
        /\ CanHold(arrv.key) => ReadChunks = {}

C8_Witness ==
    /\ SameChunkAgain
    /\ CanHold(arrv.key)
    /\ arrv.key \in arrv.stored
    /\ arrv.result.ok
    /\ arrv.result.bytes = DecodedChunk(arrv.key)
    /\ ReadChunks = {}

(* The element of the array at (r, c), as the store holds it.              *)
StoredElement(r, c) ==
    IF <<r \div ChunkRows, c \div ChunkCols>> \in arrv.stored
    THEN ElementBytes(r, c)
    ELSE FillValue

(* The result holds, for every element of the subset, the element of the   *)
(* array at its row-major place.                                           *)
RowMajorResult ==
    /\ arrv.result.ok
    /\ Len(arrv.result.bytes) = NumBytes(NumElements(arrv.subset))
    /\ \A r \in arrv.subset.start[1]..(EndExc(arrv.subset, 1) - 1) :
       \A c \in arrv.subset.start[2]..(EndExc(arrv.subset, 2) - 1) :
           ElementAt(arrv.result.bytes,
                     (r - arrv.subset.start[1]) * arrv.subset.shape[2]
                         + (c - arrv.subset.start[2]))
               = StoredElement(r, c)

(* C9: for every subset inside the array, retrieve_array_subset_opt_cached *)
(* returns exactly the row-major elements of the array in that subset.     *)
(* The path of one chunk that is not the whole subset breaks it.           *)
C9_SubsetReadCorrect ==
    (arrv.status = "done" /\ arrv.op = "subset") => RowMajorResult

(* The same for the other two paths: the subset is a whole chunk or it     *)
(* intersects several chunks.                                              *)
WholeChunkOrSeveral ==
    \/ Cardinality(CallChunks) > 1
    \/ \E k \in ChunkGrid : ChunkSubset(k) = arrv.subset
SubsetReadCorrectOffSubsetPath ==
    (arrv.status = "done" /\ arrv.op = "subset" /\ WholeChunkOrSeveral) => RowMajorResult

(* The weight of the given chunks in the cache, were all of them cached.   *)
WeightOf(ks) ==
    SumW([k \in ChunkGrid |-> Weigher(kind, RetrieveEncodedChunk(arrv.stored, k))], ks)

CapacityInChunks == IF kind = "size_limit" THEN capacity \div ChunkBytes ELSE capacity

(* C10, as stated with the cache taken as it is when the call starts: the  *)
(* call reads from the store exactly the intersecting chunks that are not  *)
(* in the cache, each once and whole.                                      *)
C10_ReadsByCacheAtStart ==
    arrv.status = "done" =>
        /\ ReadChunks = CallChunks \ arrv.cached0
        /\ \A k \in ReadChunks : arrv.reads[k] = <<"get">>

(* C10, amended: a cached retrieval looks every intersecting chunk up once *)
(* and reads it from the store, once and whole, exactly when the cache     *)
(* does not hold it at that moment; afterwards the cache holds as many of  *)
(* the intersecting chunks as its capacity allows.  When the cache has     *)
(* room for its entries and the intersecting chunks together, the chunks   *)
(* read are those that were not cached when the call started.              *)
C10_ReadAccounting ==
    /\ arrv.status \in {"fetch", "done"} =>
           \A k \in ChunkGrid :
               arrv.reads[k] = IF k \in DOMAIN arrv.fetched /\ ~arrv.fetched[k].hit
                               THEN <<"get">> ELSE <<>>
    /\ arrv.status = "done" =>
           /\ DOMAIN arrv.fetched = CallChunks
           /\ Cardinality(Kept(cache) \cap CallChunks)
                  >= Min(Cardinality(CallChunks), CapacityInChunks)
           /\ WeightOf(arrv.cached0 \cup CallChunks) <= capacity
                  => ReadChunks = CallChunks \ arrv.cached0

C10_Witness ==
    /\ arrv.status = "done"
    /\ arrv.op = "subset"
    /\ Cardinality(CallChunks) = 2
    /\ \E k1 \in CallChunks, k2 \in CallChunks :
           /\ arrv.fetched[k1].hit
           /\ arrv.reads[k1] = <<>>
           /\ ~arrv.fetched[k2].hit
           /\ arrv.reads[k2] = <<"get">>
    /\ Kept(cache) = CallChunks

(* C11: a cached retrieval of a chunk whose key the store does not hold    *)
(* is not an error and returns the chunk's number of elements times the    *)
(* element size in bytes, every element the fill value; a subset that      *)
(* intersects no chunk returns the fill value for each of its elements.    *)
C11_FillValueMaterialisation ==
    /\ (arrv.status = "done" /\ arrv.op = "chunk" /\ arrv.key \notin arrv.stored) =>
           /\ arrv.result.ok
           /\ Len(arrv.result.bytes) = ChunkElements * DataTypeSize
           /\ \A e \in 0..(ChunkElements - 1) : ElementAt(arrv.result.bytes, e) = FillValue
    /\ (arrv.status = "done" /\ arrv.op = "subset" /\ CallChunks = {}) =>
           /\ arrv.result.ok
           /\ Len(arrv.result.bytes) = NumElements(arrv.subset) * DataTypeSize
           /\ \A e \in 0..(NumElements(arrv.subset) - 1) :
                  ElementAt(arrv.result.bytes, e) = FillValue

C11_Witness ==
    /\ arrv.status = "done"
    /\ arrv.op = "chunk"
    /\ arrv.key \notin arrv.stored
    /\ arrv.reads[arrv.key] = <<"get">>
    /\ arrv.result = Ok(NewFillValue(ChunkElements))

(* A call with a subset that intersects no chunk has returned.             *)
NoChunkSubsetRead ==
    /\ arrv.status = "done"
    /\ arrv.op = "subset"
    /\ arrv.subset \in EmptySubsets
    /\ arrv.fetched = EmptyFn
    /\ ReadChunks = {}


----------------------------------------------------------------------------
(* The placement of the writes of one sharding partial encode, against the *)
(* shard index as the call read it.                                        *)

PrevIndex == ReadShardIndex(shardv.prev, shardv.loc)
ExistingChunkEnd == MaxDataOffset(PrevIndex)
ChunkWrites == {i \in 1..Len(shardv.log) : shardv.log[i].what = "chunk"}
IndexWrites == {i \in 1..Len(shardv.log) : shardv.log[i].what = "index"}
RangesMeet(o1, n1, o2, n2) == o1 < o2 + n2 /\ o2 < o1 + n1

(* C12: in a successful sharding partial encode every newly encoded inner  *)
(* chunk is written at an offset that is at least the largest offset+size  *)
(* over all non-sentinel entries of the shard index as read at the start   *)
(* of the call, and at least the encoded index size when the index is at   *)
(* the start; so no byte of an inner chunk stored before the call is       *)
(* overwritten.                                                            *)
C12_AppendOnly ==
    shardv.status = "ok" =>
        /\ \A i \in ChunkWrites :
               shardv.log[i].offset
                   >= Max(ExistingChunkEnd,
                          IF shardv.loc = "Start" THEN IndexEncodedSize ELSE 0)
        /\ \A i \in ChunkWrites : \A j \in InnerChunks :
               ~IsSentinel(PrevIndex, j) =>
                   ~RangesMeet(shardv.log[i].offset, shardv.log[i].len,
                               IndexOffset(PrevIndex, j), IndexSize(PrevIndex, j))

(* What the code keeps: a newly encoded inner chunk is written at or after *)
(* the end of every stored inner chunk the call does not touch.            *)
AppendAfterUntouched ==
    shardv.status = "ok" =>
        \A i \in ChunkWrites : \A j \in InnerChunks \ ShardTouched :
            /\ shardv.log[i].offset >= EntryEnd(PrevIndex, j)
            /\ shardv.loc = "Start" => shardv.log[i].offset >= IndexEncodedSize


(* The bytes of inner chunk j in the decoded bytes of a whole shard.       *)
InnerChunkOf(shard, j) ==
    SubSeq(shard, NumBytes(j * InnerChunkLen) + 1, NumBytes((j + 1) * InnerChunkLen))

(* The decoded inner chunk the call wrote for j, read back from where the  *)
(* call's log says it was written.                                         *)
WrittenInnerChunk(j) ==
    LET i == CHOOSE i \in ChunkWrites : shardv.log[i].j = j
    IN InnerCodecDecode(StorePartialDecode(shardv.store, shardv.log[i].offset,
                                           shardv.log[i].len).bytes)

(* C13: a successful sharding partial encode on an absent shard starts     *)
(* from the index with every entry the sentinel (MAX, MAX), so every inner *)
(* chunk it does not touch still has the sentinel in the index it writes;  *)
(* and every touched inner chunk whose entry is the sentinel is written as *)
(* a fill-value inner chunk with the request's bytes laid over it.         *)
C13_AbsentShardInitialisation ==
    shardv.status = "ok" =>
        /\ ~shardv.prev.some =>
               /\ PrevIndex = SentinelIndex
               /\ \A j \in InnerChunks \ ShardTouched :
                      /\ IsSentinel(shardv.index, j)
                      /\ IsSentinel(ReadShardIndex(shardv.store, shardv.loc), j)
        /\ \A j \in ShardTouched :
               IsSentinel(PrevIndex, j) =>
                   /\ \E i \in ChunkWrites : shardv.log[i].j = j
                   /\ WrittenInnerChunk(j)
                          = Ok(InnerChunkOf(Overwritten(NewFillValue(ShardLen),
                                                        shardv.pairs), j))

(* An absent shard, and a request that covers a part of one inner chunk    *)
(* with elements other than the fill value: the rest of the written inner  *)
(* chunk is the fill value.                                                *)
C13_Witness ==
    /\ shardv.status = "ok"
    /\ ~shardv.prev.some
    /\ Len(shardv.pairs) = 1
    /\ shardv.pairs[1].subset = [start |-> 1, shape |-> 1]
    /\ shardv.pairs[1].bytes = <<1, 0>>
    /\ IsSentinel(shardv.index, 1)
    /\ WrittenInnerChunk(0) = Ok(FillValue \o <<1, 0>>)

(* A shard that is present with a sentinel entry: the touched inner chunk  *)
(* behind it is materialised as the fill value as well.                    *)
SentinelInPresentShard ==
    /\ shardv.status = "ok"
    /\ shardv.prev.some
    /\ \E j \in ShardTouched :
           /\ IsSentinel(PrevIndex, j)
           /\ ~IsFillValue(WrittenInnerChunk(j).bytes)


(* C14: in a successful sharding partial encode the updated shard index is *)
(* written exactly once, as the last write, after one write for each       *)
(* updated inner chunk; at byte offset 0 when the index location is start, *)
(* and when it is end at the offset right after the last data byte: the    *)
(* end of the last inner chunk written, which is the largest end of the    *)
(* inner chunks the written index points to.                               *)
C14_IndexWriteOrderAndLocation ==
    shardv.status = "ok" =>
        /\ IndexWrites = {Len(shardv.log)}
        /\ ChunkWrites = 1..(Len(shardv.log) - 1)
        /\ {shardv.log[c].j : c \in ChunkWrites} = ShardTouched
        /\ Cardinality(ChunkWrites) = Cardinality(ShardTouched)
        /\ \A i \in IndexWrites :
               /\ shardv.loc = "Start" => shardv.log[i].offset = 0
               /\ shardv.loc = "End" =>
                      /\ shardv.log[i].offset = MaxDataOffset(shardv.index)
                      /\ \A c \in ChunkWrites :
                             shardv.log[c].offset + shardv.log[c].len
                                 <= shardv.log[i].offset
                      /\ ChunkWrites # {} =>
                             shardv.log[i].offset
                                 = shardv.log[i - 1].offset + shardv.log[i - 1].len
               /\ StorePartialDecode(shardv.store, shardv.log[i].offset,
                                     shardv.log[i].len)
                      = Present(IndexCodecEncode(shardv.index))

(* The index at the end, written after two inner chunks were appended to   *)
(* a shard that held both before.                                          *)
C14_Witness ==
    /\ shardv.status = "ok"
    /\ shardv.loc = "End"
    /\ shardv.prev.some
    /\ Len(shardv.log) = 3
    /\ shardv.log[1].what = "chunk" /\ shardv.log[2].what = "chunk"
    /\ shardv.log[3] = WriteLog("index", 0,
                                shardv.log[2].offset + shardv.log[2].len,
                                IndexEncodedSize)
    /\ shardv.log[3].offset > 0

(* The index at the start, written after the inner chunk.                  *)
IndexAtStartWrittenLast ==
    /\ shardv.status = "ok"
    /\ shardv.loc = "Start"
    /\ Len(shardv.log) = 2
    /\ shardv.log[1].what = "chunk"
    /\ shardv.log[2] = WriteLog("index", 0, 0, IndexEncodedSize)


----------------------------------------------------------------------------
(* Failures in a sharding partial encode.  The shard may have been left    *)
(* damaged by another writer, and an encode or a store write of the call   *)
(* may fail: failAt is the position, among the store writes of the call    *)
(* (the updated inner chunks in order, then the index), of the one that    *)
(* fails, and 0 when none does.  A failed write stores nothing.  The       *)
(* history of a shard is followed up to its MaxFailures-th failed write.   *)

MaxFailures == 1

(* As ShardingPartialEncoderStoreFails, but the index is still written     *)
(* after a write has failed.                                               *)
ShardingPartialEncoderIndexAfterFailure(st, loc, pairs, order, failAt) ==
    LET read == DecodeShardIndex(st, loc)
        index0 == IF read.some THEN read.bytes ELSE SentinelIndex
        acc == UpdateInnerChunks(Acc(TRUE, index0, EmptyFn, <<>>), st, pairs)
    IN IF ~read.ok \/ ~acc.ok \/ failAt = 0
       THEN ShardingPartialEncoder(st, loc, pairs, order)
       ELSE ShardResult("err",
                WriteShardIndex(
                    WriteInnerChunks(
                        Written(st, acc.index, OffsetAppend(acc.index, loc), <<>>),
                        acc.updated, SubSeq(order, 1, failAt - 1)),
                    loc))

(* ShardingPartialEncoder::partial_encode_opt with a failing write: the    *)
(* writes before it are done, the error is returned at the failing one.    *)
ShardingPartialEncoderStoreFails(st, loc, pairs, order, failAt) ==
    LET read == DecodeShardIndex(st, loc)
        index0 == IF read.some THEN read.bytes ELSE SentinelIndex
        acc == UpdateInnerChunks(Acc(TRUE, index0, EmptyFn, <<>>), st, pairs)
    IN IF ~read.ok \/ ~acc.ok \/ failAt = 0
       THEN ShardingPartialEncoder(st, loc, pairs, order)
       ELSE ShardResult("err",
                WriteInnerChunks(
                    Written(st, acc.index, OffsetAppend(acc.index, loc), <<>>),
                    acc.updated, SubSeq(order, 1, failAt - 1)))

ShardPartialEncodeOptStoreFails ==
    /\ shardv.status = "idle"
    /\ shardv.failures < MaxFailures
    /\ \E n \in 0..MaxShardPairs : \E pairs \in [1..n -> ShardPairs] :
           \E order \in Orders(InnerChunksTouched(pairs)) :
               \E failAt \in 0..(Len(order) + 1) :
                   \E r \in {ShardingPartialEncoderStoreFails(
                                 shardv.store, shardv.loc, pairs, order, failAt)} :
                       /\ r.store.some => Len(r.store.bytes) <= MaxShardBytes
                       /\ shardv' = [loc |-> shardv.loc, store |-> r.store,
                                     status |-> r.status, prev |-> shardv.store,
                                     pairs |-> pairs, index |-> r.index,
                                     log |-> r.log, failAt |-> failAt,
                                     failures |-> shardv.failures
                                                      + (IF failAt > 0 THEN 1 ELSE 0)]
    /\ UNCHANGED <<kind, capacity, cache, waiter, pc, ckey, cval, obs, recency,
                   encv, arrv>>

(* Damaged shard values: one shorter than an index, one whose index fails  *)
(* its checksum, and one whose index gives inner chunk 0 a range that is   *)
(* one byte short of an encoded inner chunk.                               *)
ShortInnerChunkIndex(offset) ==
    SetEntry(SentinelIndex, 0, offset, InnerEncodedLen - 1)
DamagedShards(loc) ==
    {SomeV(<<0>>),
     SomeV(SentinelIndex \o <<Checksum(SentinelIndex) + 1>>),
     IF loc = "Start"
     THEN SomeV(IndexCodecEncode(ShortInnerChunkIndex(IndexEncodedSize))
                    \o Zeros(InnerEncodedLen - 1))
     ELSE SomeV(Zeros(InnerEncodedLen - 1)
                    \o IndexCodecEncode(ShortInnerChunkIndex(0)))}

InitShardFail ==
    /\ IdleCache
    /\ encv = 0
    /\ arrv = 0
    /\ \E loc \in IndexLocations : \E st \in {NoneV} \cup DamagedShards(loc) :
           shardv = IdleShard(loc, st) @@ [failures |-> 0]

(* The call is over; its arguments are dropped.                            *)
ShardReturnAfterFailures ==
    /\ shardv.status # "idle"
    /\ shardv' = IdleShard(shardv.loc, shardv.store)
                      @@ [failures |-> shardv.failures]
    /\ UNCHANGED <<kind, capacity, cache, waiter, pc, ckey, cval, obs, recency,
                   encv, arrv>>

NextShardFail ==
    \/ ShardPartialEncodeOptStoreFails
    \/ ShardReturnAfterFailures

SpecShardFail == InitShardFail /\ [][NextShardFail]_vars


(* What fails in the call that has just been made, by the shard value it   *)
(* found.                                                                  *)
IndexDecodeFails == ~DecodeShardIndex(shardv.prev, shardv.loc).ok
InnerChunkDecodeFails ==
    /\ ~IndexDecodeFails
    /\ \E j \in ShardTouched : ~ReadInnerChunk(shardv.prev, shardv.loc, j).ok
WriteFails ==
    /\ ~IndexDecodeFails
    /\ ~InnerChunkDecodeFails
    /\ shardv.failAt > 0

(* The decoded shard before the call; an inner chunk that does not decode  *)
(* stands as the fill value (the call fails when it touches one).          *)
PrevDecoded ==
    Flatten([i \in 1..NumInner |->
                IF ReadInnerChunk(shardv.prev, shardv.loc, i - 1).ok
                THEN ReadInnerChunk(shardv.prev, shardv.loc, i - 1).bytes
                ELSE NewFillValue(InnerChunkLen)])

LoggedCells ==
    UNION {(shardv.log[c].offset + 1)..(shardv.log[c].offset + shardv.log[c].len) :
               c \in 1..Len(shardv.log)}
StoredBytes(st) == IF st.some THEN st.bytes ELSE <<>>

(* C15: if decoding the index, decoding a touched inner chunk, or encoding *)
(* or writing an updated inner chunk (or the index) fails, the call        *)
(* returns an error and makes no further write: after a decode failure     *)
(* nothing is written; after the failure of a write only the inner chunks  *)
(* before it are written and the index is not; what was written stays in   *)
(* the shard and every other byte of the shard is as before.               *)
C15_FailureSemantics ==
    shardv.status # "idle" =>
        LET indexFails == IndexDecodeFails
            innerFails == InnerChunkDecodeFails
            writeFails == ~indexFails /\ ~innerFails /\ shardv.failAt > 0
            before == StoredBytes(shardv.prev)
            after == StoredBytes(shardv.store)
            logged == LoggedCells
            expected == Overwritten(PrevDecoded, shardv.pairs)
        IN /\ (shardv.status = "err") = (indexFails \/ innerFails \/ writeFails)
           /\ (indexFails \/ innerFails) =>
                  shardv.log = <<>> /\ shardv.store = shardv.prev
           /\ writeFails =>
                  /\ IndexWrites = {}
                  /\ Len(shardv.log) = shardv.failAt - 1
                  /\ \A c \in 1..Len(shardv.log) :
                         InnerCodecDecode(
                             StorePartialDecode(shardv.store, shardv.log[c].offset,
                                                shardv.log[c].len).bytes)
                             = Ok(InnerChunkOf(expected, shardv.log[c].j))
                  /\ shardv.log = <<>> => shardv.store = shardv.prev
                  /\ \A p \in 1..Len(before) :
                         p \notin logged => after[p] = before[p]

(* The second of two inner chunk writes fails on a shard that was stored   *)
(* before: the first inner chunk is in the shard, the index is the old one.*)
C15_Witness ==
    /\ shardv.status = "err"
    /\ WriteFails
    /\ shardv.prev.some
    /\ shardv.failAt = 2
    /\ Cardinality(ShardTouched) = 2
    /\ Len(shardv.log) = 1
    /\ shardv.store # shardv.prev
    /\ ReadShardIndex(shardv.store, shardv.loc) = PrevIndex

IndexDecodeFailure ==
    shardv.status = "err" /\ IndexDecodeFails /\ shardv.pairs # <<>>
InnerChunkDecodeFailure ==
    shardv.status = "err" /\ InnerChunkDecodeFails
IndexWriteFailure ==
    /\ shardv.status = "err"
    /\ WriteFails
    /\ shardv.failAt = Cardinality(ShardTouched) + 1
    /\ shardv.store # shardv.prev


----------------------------------------------------------------------------
(* The scatter of the multi-chunk path of retrieve_array_subset_opt_cached *)
(* with its worker tasks interleaved: one task for each chunk, all of them *)
(* writing into the one output buffer behind the UnsafeCellSlice, one      *)
(* contiguous run (a row of the chunk's overlap with the subset) at a      *)
(* time.  Every chunk is stored and was retrieved.  For each byte of the   *)
(* output, writers holds the tasks that have written it.                   *)

MultiChunkSubsets ==
    {ss \in InArraySubsets : Cardinality(ChunksInArraySubset2(ss)) > 1}

(* The bytes a task copies: the chunk's overlap with the subset, taken     *)
(* whole or extracted from the decoded chunk, as update_output does.       *)
TaskOverlap(ss, k) == Overlap2(ChunkSubset(k), ss)
TaskBytes(ss, k) ==
    IF TaskOverlap(ss, k) = ChunkSubset(k) THEN DecodedChunk(k)
    ELSE ExtractArraySubset2(DecodedChunk(k),
                             RelativeTo2(TaskOverlap(ss, k), ChunkSubset(k).start),
                             ChunkSubset(k).shape).bytes

(* As RunStart, but the rows are laid out with the width of the run and    *)
(* not with the width of the output.                                       *)
RunStartOwnStride(shape, rel, row) ==
    NumBytes((rel.start[1] + row) * rel.shape[2] + rel.start[2])

(* update_bytes_flen, run by run: where in an output buffer of the given   *)
(* shape the row-th row of the subset rel starts, and the bytes of a run.  *)
RunStart(shape, rel, row) ==
    NumBytes((rel.start[1] + row) * shape[2] + rel.start[2])
RunLen(rel) == NumBytes(rel.shape[2])
RunCells(shape, rel, row) ==
    (RunStart(shape, rel, row) + 1)..(RunStart(shape, rel, row) + RunLen(rel))
WriteRun(output, start, b) ==
    SubSeq(output, 1, start) \o b \o SubSeq(output, start + Len(b) + 1, Len(output))

ScatterIdle == [status |-> "idle"]

(* The output is allocated and the tasks are handed out.                   *)
ScatterBegin(ss) ==
    /\ arrv.status = "idle"
    /\ arrv' = [status |-> "scatter", subset |-> ss,
                output |-> Uninitialised(NumBytes(NumElements(ss))),
                writers |-> [p \in 1..NumBytes(NumElements(ss)) |-> {}],
                rows |-> [k \in ChunksInArraySubset2(ss) |-> 0]]
    /\ UNCHANGED <<kind, capacity, cache, waiter, pc, ckey, cval, obs, recency,
                   encv, shardv>>

(* The task of chunk k copies its next run into the output.                *)
ScatterRun(k) ==
    /\ arrv.status = "scatter"
    /\ k \in DOMAIN arrv.rows
    /\ arrv.rows[k] < TaskOverlap(arrv.subset, k).shape[1]
    /\ LET rel == RelativeTo2(TaskOverlap(arrv.subset, k), arrv.subset.start)
           row == arrv.rows[k]
           b == SubSeq(TaskBytes(arrv.subset, k),
                       row * RunLen(rel) + 1, (row + 1) * RunLen(rel))
       IN arrv' = [arrv EXCEPT
                      !.output = WriteRun(@, RunStart(arrv.subset.shape, rel, row), b),
                      !.writers = [p \in DOMAIN @ |->
                                      IF p \in RunCells(arrv.subset.shape, rel, row)
                                      THEN @[p] \cup {k} ELSE @[p]],
                      !.rows[k] = @ + 1]
    /\ UNCHANGED <<kind, capacity, cache, waiter, pc, ckey, cval, obs, recency,
                   encv, shardv>>

(* As ScatterEnd, but the length is set as soon as one task is through.    *)
ScatterEndAfterOneTask ==
    /\ arrv.status = "scatter"
    /\ \E k \in DOMAIN arrv.rows :
           arrv.rows[k] = TaskOverlap(arrv.subset, k).shape[1]
    /\ arrv' = [arrv EXCEPT !.status = "done"]
    /\ UNCHANGED <<kind, capacity, cache, waiter, pc, ckey, cval, obs, recency,
                   encv, shardv>>

(* All tasks are through: the length of the output is set and the buffer   *)
(* is returned.                                                            *)
ScatterEnd ==
    /\ arrv.status = "scatter"
    /\ \A k \in DOMAIN arrv.rows :
           arrv.rows[k] = TaskOverlap(arrv.subset, k).shape[1]
    /\ arrv' = [arrv EXCEPT !.status = "done"]
    /\ UNCHANGED <<kind, capacity, cache, waiter, pc, ckey, cval, obs, recency,
                   encv, shardv>>

ScatterReturn ==
    /\ arrv.status = "done"
    /\ arrv' = ScatterIdle
    /\ UNCHANGED <<kind, capacity, cache, waiter, pc, ckey, cval, obs, recency,
                   encv, shardv>>

InitScatter ==
    /\ IdleCache
    /\ encv = 0
    /\ shardv = 0
    /\ arrv = ScatterIdle

NextScatter ==
    \/ \E ss \in MultiChunkSubsets : ScatterBegin(ss)
    \/ \E k \in ChunkGrid : ScatterRun(k)
    \/ ScatterEnd
    \/ ScatterReturn

SpecScatter == InitScatter /\ [][NextScatter]_vars

(* The bytes of the output the task of chunk k writes in all.              *)
TargetCells(ss, k) ==
    UNION {RunCells(ss.shape, RelativeTo2(TaskOverlap(ss, k), ss.start), row) :
               row \in 0..(TaskOverlap(ss, k).shape[1] - 1)}

(* C16: in the multi-chunk fixed-width path the byte ranges of the shared  *)
(* output buffer written by the tasks of distinct chunks are pairwise      *)
(* disjoint: in every interleaving of the tasks no output byte is written  *)
(* by two tasks, each task writes only inside its own ranges, and when all *)
(* are through every byte has been written by exactly one task and the     *)
(* buffer is what the tasks give one after the other.                      *)
C16_ScatterDisjoint ==
    arrv.status \in {"scatter", "done"} =>
        /\ \A k1, k2 \in DOMAIN arrv.rows :
               k1 # k2 => TargetCells(arrv.subset, k1) \cap TargetCells(arrv.subset, k2) = {}
        /\ \A p \in DOMAIN arrv.writers :
               /\ Cardinality(arrv.writers[p]) <= 1
               /\ \A k \in arrv.writers[p] : p \in TargetCells(arrv.subset, k)
        /\ arrv.status = "done" =>
               /\ \A p \in DOMAIN arrv.writers : Cardinality(arrv.writers[p]) = 1
               /\ Ok(arrv.output)
                      = ScatterChunks(Ok(Uninitialised(Len(arrv.output))), arrv.subset,
                                      [k \in DOMAIN arrv.rows |->
                                          Fetched(FALSE, Ok(DecodedChunk(k)))],
                                      DOMAIN arrv.rows)

(* Four tasks, each with a part of its chunk, have run interleaved: the    *)
(* task that began was not the first to finish.                            *)
C16_Witness ==
    /\ arrv.status = "scatter"
    /\ arrv.subset = Subset2(<<1, 1>>, <<2, 2>>)
    /\ Cardinality(DOMAIN arrv.rows) = 4
    /\ arrv.rows[<<0, 0>>] = 1
    /\ arrv.rows[<<1, 1>>] = 1
    /\ arrv.rows[<<0, 1>>] = 0
    /\ arrv.writers[1] = {<<0, 0>>}
    /\ arrv.writers[NumBytes(4)] = {<<1, 1>>}
    /\ arrv.output[3] = Uninit

ScatterTwoRowsInterleaved ==
    /\ arrv.status = "done"
    /\ arrv.subset = Subset2(<<0, 1>>, <<2, 2>>)
    /\ arrv.writers[1] = {<<0, 0>>}
    /\ arrv.writers[NumBytes(2)] = {<<0, 1>>}


----------------------------------------------------------------------------
(* The fan-out of retrieve_array_subset_opt_cached with failing workers.   *)
(* A read of the store gives the stored value, a value that is an element *)
(* short (it decodes and fails validation), or an error.  At most          *)
(* MaxChunkErrors reads of one call go wrong.  The cache is the            *)
(* chunk-limited LRU cache with room for one chunk.                        *)

MaxChunkErrors == 2

StoreOutcomes == {"value", "damaged", "error"}
DamagedValue(k) == SomeV(SubSeq(EncodedChunk(k), 1, ChunkBytes - DataTypeSize))

(* The ArrayError of the worker of chunk k.                                *)
ChunkError(k) == [ok |-> FALSE, bytes |-> <<>>, chunk |-> k]

(* retrieve_chunk_opt_cached with the outcome of the store read its thunk  *)
(* makes on a miss: an error of the thunk leaves the cache as it is, a     *)
(* damaged value is cached as it was read and fails to decode.             *)
RetrieveChunkOptCachedStoreFails(c, stored, k, outcome) ==
    IF k \in DOMAIN c.map \/ outcome = "value"
    THEN RetrieveChunkOptCached(c, stored, k)
    ELSE IF outcome = "error" THEN CachedChunk(c, <<"get">>, Err)
    ELSE CachedChunk(CacheInsert(c, k, DamagedValue(k)), <<"get">>,
                     DecodeEncoded(DamagedValue(k)))

FailedChunks(fetched) == {k \in DOMAIN fetched : ~fetched[k].bytes.ok}

(* One worker of the fan-out.                                              *)
FanOutFetchChunk(k, outcome) ==
    /\ arrv.status = "fetch"
    /\ k \in arrv.pending
    /\ Room
    /\ outcome # "value" =>
           /\ k \notin DOMAIN cache.map
           /\ Cardinality(FailedChunks(arrv.fetched)) < MaxChunkErrors
    /\ \E r \in {RetrieveChunkOptCachedStoreFails(cache, arrv.stored, k, outcome)} :
           /\ cache' = r.cache
           /\ arrv' = [arrv EXCEPT
                          !.pending = @ \ {k},
                          !.fetched = Put(@, k,
                                          Fetched(k \in DOMAIN cache.map,
                                                  IF r.bytes.ok THEN r.bytes
                                                  ELSE ChunkError(k))),
                          !.reads[k] = @ \o r.reads]
    /\ UNCHANGED <<kind, capacity, waiter, pc, ckey, cval, obs, recency, encv, shardv>>

(* As FanOutError, but the chunks that were retrieved are handed back.     *)
FanOutErrorPartialOutput(ss, fetched, k) ==
    ScatterChunks(Ok(Uninitialised(NumBytes(NumElements(ss)))), ss, fetched,
                  DOMAIN fetched \ FailedChunks(fetched))

(* collect::<Result<Vec<_>, ArrayError>>()? with a failed worker: the      *)
(* error of one of them is the result of the call.                         *)
FanOutError(ss, fetched, k) == fetched[k].bytes

(* A worker has failed: the call returns its error; workers that have not *)
(* started are dropped.                                                    *)
FanOutFail ==
    /\ arrv.status = "fetch"
    /\ \E k \in FailedChunks(arrv.fetched) :
           arrv' = [arrv EXCEPT !.status = "done",
                                !.result = FanOutError(arrv.subset, arrv.fetched, k)]
    /\ UNCHANGED <<kind, capacity, cache, waiter, pc, ckey, cval, obs, recency,
                   encv, shardv>>

(* All workers are through and none has failed: the output is assembled.   *)
FanOutCollect ==
    /\ arrv.status = "fetch"
    /\ arrv.pending = {}
    /\ FailedChunks(arrv.fetched) = {}
    /\ arrv' = [arrv EXCEPT !.status = "done",
                            !.result = AssembleSubset(arrv.subset, arrv.fetched)]
    /\ UNCHANGED <<kind, capacity, cache, waiter, pc, ckey, cval, obs, recency,
                   encv, shardv>>

InitFanOut ==
    /\ kind = "chunk_limit"
    /\ capacity = 1
    /\ FreshCache
    /\ encv = 0
    /\ shardv = 0
    /\ arrv = ArrIdle(ChunkGrid)

NextFanOut ==
    \/ \E ss \in MultiChunkSubsets : RetrieveArraySubsetOptCached(ss)
    \/ \E k \in ChunkGrid : \E outcome \in StoreOutcomes : FanOutFetchChunk(k, outcome)
    \/ FanOutFail
    \/ FanOutCollect
    \/ ArrReturn
    \/ Housekeeping

SpecFanOut == InitFanOut /\ [][NextFanOut]_vars

(* C17: if the retrieval or the decoding of a chunk fails during a         *)
(* multi-chunk retrieve_array_subset_opt_cached, the call returns an error *)
(* that a failing worker produced, with no output buffer, whatever the     *)
(* other workers retrieved; and it returns a buffer only when no worker    *)
(* has failed.                                                             *)
C17_FanOutErrorPropagation ==
    (arrv.status = "done" /\ arrv.op = "subset") =>
        /\ FailedChunks(arrv.fetched) # {} =>
               /\ ~arrv.result.ok
               /\ arrv.result.bytes = <<>>
               /\ \E k \in FailedChunks(arrv.fetched) : arrv.result = ChunkError(k)
        /\ arrv.result.ok =>
               /\ FailedChunks(arrv.fetched) = {}
               /\ arrv.pending = {}
               /\ Len(arrv.result.bytes) = NumBytes(NumElements(arrv.subset))

(* Two workers have failed, one on a store error and one on a damaged      *)
(* chunk found in the cache, another has retrieved its chunk; the call     *)
(* returns the error of the worker that failed second.                     *)
C17_Witness ==
    /\ arrv.status = "done"
    /\ arrv.op = "subset"
    /\ Cardinality(FailedChunks(arrv.fetched)) = 2
    /\ \E k \in DOMAIN arrv.fetched : arrv.fetched[k].bytes.ok
    /\ \E k \in FailedChunks(arrv.fetched) :
           /\ arrv.fetched[k].hit
           /\ arrv.result = ChunkError(k)
    /\ \E k \in FailedChunks(arrv.fetched) :
           /\ ~arrv.fetched[k].hit
           /\ k \notin DOMAIN cache.map
           /\ arrv.result # ChunkError(k)

FanOutFailsEarly ==
    /\ arrv.status = "done"
    /\ arrv.op = "subset"
    /\ ~arrv.result.ok
    /\ arrv.pending # {}


----------------------------------------------------------------------------
(* The concurrency budget of the multi-chunk path.  The call splits its    *)
(* concurrent target between the chunk tasks it runs at once and the codec *)
(* concurrency it hands to each of them, and then runs the chunk tasks     *)
(* under the chunk limit; each chunk task keeps as many codec tasks busy   *)
(* as its options allow.                                                   *)

MaxTarget == 8              \* largest concurrent target
MaxChunkCount == 4          \* most chunks of a call
MaxCodecConcurrency == 4    \* largest recommended codec concurrency

Clamp(x, lo, hi) == Max(lo, Min(x, hi))

(* As CodecConcurrency, but the whole target is handed to each chunk.      *)
CodecConcurrencyWholeTarget(target, limit, rmin, rmax) ==
    Clamp(target, rmin, rmax)

(* concurrency_chunks_and_codec: the chunk concurrent limit, and the codec *)
(* concurrent target set in the options of each chunk.                     *)
ChunkConcurrency(target, numChunks, rmin) ==
    Clamp(CeilDiv(target, Max(rmin, 1)), 1, numChunks)
CodecConcurrency(target, limit, rmin, rmax) ==
    Clamp(CeilDiv(target, limit), rmin, rmax)

BudgetIdle == [status |-> "idle"]

(* The call computes the two limits for its chunks.                        *)
ConcurrencyChunksAndCodec(target, numChunks, rmin, rmax) ==
    /\ arrv.status = "idle"
    /\ arrv' = [status |-> "run", target |-> target, numChunks |-> numChunks,
                rmin |-> rmin, rmax |-> rmax,
                limit |-> ChunkConcurrency(target, numChunks, rmin),
                codec |-> CodecConcurrency(
                              target, ChunkConcurrency(target, numChunks, rmin),
                              rmin, rmax),
                live |-> 0, left |-> numChunks]
    /\ UNCHANGED <<kind, capacity, cache, waiter, pc, ckey, cval, obs, recency,
                   encv, shardv>>

(* iter_concurrent_limit!: a chunk task starts while fewer than the limit  *)
(* are running.                                                            *)
StartChunkTask ==
    /\ arrv.status = "run"
    /\ arrv.left > 0
    /\ arrv.live < arrv.limit
    /\ arrv' = [arrv EXCEPT !.live = @ + 1, !.left = @ - 1]
    /\ UNCHANGED <<kind, capacity, cache, waiter, pc, ckey, cval, obs, recency,
                   encv, shardv>>

EndChunkTask ==
    /\ arrv.status = "run"
    /\ arrv.live > 0
    /\ arrv' = [arrv EXCEPT !.live = @ - 1]
    /\ UNCHANGED <<kind, capacity, cache, waiter, pc, ckey, cval, obs, recency,
                   encv, shardv>>

BudgetReturn ==
    /\ arrv.status = "run"
    /\ arrv.left = 0
    /\ arrv.live = 0
    /\ arrv' = BudgetIdle
    /\ UNCHANGED <<kind, capacity, cache, waiter, pc, ckey, cval, obs, recency,
                   encv, shardv>>

InitBudget ==
    /\ IdleCache
    /\ encv = 0
    /\ shardv = 0
    /\ arrv = BudgetIdle

NextBudget ==
    \/ \E target \in 1..MaxTarget : \E numChunks \in 1..MaxChunkCount :
           \E rmin \in 0..MaxCodecConcurrency :
               \E rmax \in Max(rmin, 1)..MaxCodecConcurrency :
                   ConcurrencyChunksAndCodec(target, numChunks, rmin, rmax)
    \/ StartChunkTask
    \/ EndChunkTask
    \/ BudgetReturn

SpecBudget == InitBudget /\ [][NextBudget]_vars

(* The chunk tasks running and the codec tasks they keep busy.             *)
LiveChunkTasks == arrv.live
LiveCodecTasks == arrv.live * arrv.codec

PerChunkCodecPlusChunkTasks ==
    (arrv.status = "run" /\ arrv.rmin >= 1) =>
        arrv.codec + LiveChunkTasks <= arrv.target + arrv.rmin


----------------------------------------------------------------------------
(* Cached retrievals of an array that is also written.  One thread reads   *)
(* chunks through the cache and writes chunks through the array; a write   *)
(* stores the chunk's data under its key or erases the key, and is handed  *)
(* no cache.  arrv.ins holds, for each chunk, what the store held under    *)
(* its key when the chunk was last inserted into the cache; arrv.written   *)
(* holds, for each chunk written while the cache held it and not inserted  *)
(* since, what the store held before the last such write.  Both forget a   *)
(* chunk that has left the cache.                                          *)

RWIdle(stored, ins, written) ==
    [stored |-> stored, status |-> "idle", key |-> <<0, 0>>, hit |-> FALSE,
     result |-> Err, ins |-> ins, written |-> written]

Without(f, k) == [x \in (DOMAIN f) \ {k} |-> f[x]]
Only(f, S) == [x \in (DOMAIN f) \cap S |-> f[x]]

(* retrieve_chunk_opt_cached of chunk k.                                   *)
RetrieveChunkRW(k) ==
    /\ arrv.status = "idle"
    /\ Room
    /\ \E r \in {RetrieveChunkOptCached(cache, arrv.stored, k)} :
           /\ cache' = r.cache
           /\ arrv' = [arrv EXCEPT
                          !.status = "done", !.key = k,
                          !.hit = k \in DOMAIN cache.map,
                          !.result = r.bytes,
                          !.ins = IF k \in DOMAIN cache.map
                                  THEN Only(@, DOMAIN cache.map)
                                  ELSE Put(Only(@, DOMAIN cache.map), k,
                                           RetrieveEncodedChunk(arrv.stored, k)),
                          !.written = IF k \in DOMAIN cache.map
                                      THEN Only(@, DOMAIN cache.map)
                                      ELSE Without(Only(@, DOMAIN cache.map), k)]
    /\ UNCHANGED <<kind, capacity, waiter, pc, ckey, cval, obs, recency, encv, shardv>>

(* store_chunk of the data of chunk k, and erase_chunk: the key is set or  *)
(* deleted in the store.                                                   *)
StoreChunk(k) ==
    /\ arrv.status = "idle"
    /\ k \notin arrv.stored
    /\ arrv' = [arrv EXCEPT
                   !.stored = @ \cup {k},
                   !.written = IF k \in DOMAIN cache.map
                               THEN Put(@, k, RetrieveEncodedChunk(arrv.stored, k))
                               ELSE @]
    /\ UNCHANGED <<kind, capacity, cache, waiter, pc, ckey, cval, obs, recency,
                   encv, shardv>>

EraseChunk(k) ==
    /\ arrv.status = "idle"
    /\ k \in arrv.stored
    /\ arrv' = [arrv EXCEPT
                   !.stored = @ \ {k},
                   !.written = IF k \in DOMAIN cache.map
                               THEN Put(@, k, RetrieveEncodedChunk(arrv.stored, k))
                               ELSE @]
    /\ UNCHANGED <<kind, capacity, cache, waiter, pc, ckey, cval, obs, recency,
                   encv, shardv>>

ReturnRW ==
    /\ arrv.status = "done"
    /\ arrv' = RWIdle(arrv.stored, arrv.ins, arrv.written)
    /\ UNCHANGED <<kind, capacity, cache, waiter, pc, ckey, cval, obs, recency,
                   encv, shardv>>

(* The chunks the thread writes; it reads them all.                        *)
WrittenChunks == {<<0, 0>>, LastChunk}

InitArrayRW ==
    /\ kind \in {"chunk_limit", "size_limit"}
    /\ capacity \in ArrayCapacities(kind)
    /\ FreshCache
    /\ encv = 0
    /\ shardv = 0
    /\ arrv = RWIdle(ChunkGrid, EmptyFn, EmptyFn)

NextArrayRW ==
    \/ \E k \in ChunkGrid : RetrieveChunkRW(k)
    \/ \E k \in WrittenChunks : StoreChunk(k)
    \/ \E k \in WrittenChunks : EraseChunk(k)
    \/ ReturnRW
    \/ Housekeeping

SpecArrayRW == InitArrayRW /\ [][NextArrayRW]_vars

EntriesNeverModified ==
    [][\A k \in (DOMAIN cache.map) \cap (DOMAIN cache'.map) :
           cache'.map[k] = cache.map[k]]_vars

(* C20: after a write to a chunk, a cached retrieval of that chunk through *)
(* a cache that held the chunk when it was written does not return the     *)
(* contents the chunk had before the write.                                *)
C20_NoStaleRead ==
    (arrv.status = "done" /\ arrv.key \in DOMAIN arrv.written) =>
        arrv.result # DecodeEncoded(arrv.written[arrv.key])

(* A retrieval answered from the store returns what the store holds.       *)
MissReadsCurrent ==
    (arrv.status = "done" /\ ~arrv.hit) =>
        arrv.result = DecodeEncoded(RetrieveEncodedChunk(arrv.stored, arrv.key))

----------------------------------------------------------------------------
(* Validation of decoded chunks.  The shard of this scenario holds one     *)
(* inner chunk that was encoded with an element too many: the inner codecs *)
(* decode it, and the decoded bytes are not those of an inner chunk.       *)
ValidateInnerChunk(b) == Len(b) = NumBytes(InnerChunkLen)

LongInnerChunk == Zeros(NumBytes(InnerChunkLen + 1))
LongInnerChunkShard(loc, j) ==
    IF loc = "Start"
    THEN SomeV(IndexCodecEncode(SetEntry(SentinelIndex, j, IndexEncodedSize,
                                         Len(LongInnerChunk)))
                   \o InnerCodecEncode(LongInnerChunk))
    ELSE SomeV(InnerCodecEncode(LongInnerChunk)
                   \o IndexCodecEncode(SetEntry(SentinelIndex, j, 0,
                                                Len(LongInnerChunk))))

InitShardLong ==
    /\ IdleCache
    /\ encv = 0
    /\ arrv = 0
    /\ \E loc \in IndexLocations : \E j \in InnerChunks :
           shardv = IdleShard(loc, LongInnerChunkShard(loc, j))

NextShardLong ==
    \/ ShardPartialEncodeOpt
    \/ ShardReturn

SpecShardLong == InitShardLong /\ [][NextShardLong]_vars

(* The touched inner chunks whose decode from the shard of before the call *)
(* succeeds with an output that fails validation.                          *)
InvalidInnerChunks ==
    {j \in ShardTouched :
        LET d == DecodeInnerChunk(shardv.prev, IndexOffset(PrevIndex, j),
                                  IndexSize(PrevIndex, j))
        IN d.ok /\ ~ValidateInnerChunk(d.bytes)}

InvalidInnerChunkWritten ==
    /\ shardv.status = "ok"
    /\ \E i \in ChunkWrites :
           /\ shardv.log[i].j \in InvalidInnerChunks
           /\ shardv.log[i].len # InnerEncodedLen

(* The default array-to-bytes partial encoder validates what it decoded:   *)
(* a stored chunk with an element too many is an error and stays as it is. *)
DefaultEncoderValidates ==
    (encv.status # "idle" /\ encv.enc = "a2b" /\ encv.prev = LongChunk) =>
        (encv.status = "err" /\ encv.store = encv.prev)

----------------------------------------------------------------------------
(* Concurrent callers of retrieve_chunk_opt_cached on a store whose reads  *)
(* can fail.  moka wraps the error of a thunk in one Arc and hands a clone *)
(* of it to the caller that ran the thunk and to every caller blocked on   *)
(* the key; each of them then runs the map_err closure on its clone.       *)
(* arrv.errs: the errors the thunks produced, in order; arrv.held: the     *)
(* Arc each caller holds (its place in errs, 0 for none); arrv.result:     *)
(* what the last failed call of each caller returned.                      *)
MaxThunkErrors == 2

StorageErrorVariants == {"IOError", "Other"}
ErrorMessages == {1, 2}
StorageErrors == [variant : StorageErrorVariants, msg : ErrorMessages]

(* Display of the error, and StorageError::from(String).                   *)
ErrToString(err) == err.msg
StorageErrorFromString(s) == [variant |-> "Other", msg |-> s]

(* As MapErr, but the error built for a shared Arc has a message of its    *)
(* own.                                                                    *)
MapErrOwnMessage(err, unique) ==
    IF unique THEN err ELSE StorageErrorFromString(0)

(* The map_err closure: Arc::try_unwrap gives the error itself to the      *)
(* holder of the only reference; any other holder gets a StorageError made *)
(* of the error's text.                                                    *)
MapErr(err, unique) ==
    IF unique THEN err ELSE StorageErrorFromString(ErrToString(err))

NoResult == [id |-> 0, err |-> StorageErrorFromString(0)]
SharedErrIdle ==
    [errs |-> <<>>,
     held |-> [c \in Callers |-> 0],
     result |-> [c \in Callers |-> NoResult]]

Holders(id) == {c \in Callers : arrv.held[c] = id}

(* The read of the store in the thunk of caller c fails with err: nothing  *)
(* is inserted, and the caller and the callers blocked on its key leave    *)
(* try_get_with with the shared error.                                     *)
ThunkErrShared(c, err) ==
    /\ pc[c] = "init"
    /\ UsesMoka
    /\ Len(arrv.errs) < MaxThunkErrors
    /\ waiter' = Drop(waiter, ckey[c])
    /\ obs' = Obs("err", {c} \cup Waiting(ckey[c]), ckey[c], NoneV,
                  Len(arrv.errs) + 1)
    /\ pc' = [x \in Callers |->
                 IF x = c \/ x \in Waiting(ckey[c]) THEN "map_err" ELSE pc[x]]
    /\ ckey' = Forget(c, ckey[c])
    /\ arrv' = [arrv EXCEPT
                    !.errs = Append(@, err),
                    !.held = [x \in Callers |->
                                 IF x = c \/ x \in Waiting(ckey[c])
                                 THEN Len(arrv.errs) + 1 ELSE @[x]]]
    /\ UNCHANGED <<kind, capacity, cache, cval, recency, encv, shardv>>

(* Caller c runs the map_err closure and returns the error; its clone of   *)
(* the Arc is gone.                                                        *)
ReturnErr(c) ==
    /\ pc[c] = "map_err"
    /\ arrv' = [arrv EXCEPT
                    !.result[c] =
                        [id |-> arrv.held[c],
                         err |-> MapErr(arrv.errs[arrv.held[c]],
                                        Holders(arrv.held[c]) = {c})],
                    !.held[c] = 0]
    /\ pc' = [pc EXCEPT ![c] = "idle"]
    /\ obs' = Obs("returned", {c}, 0, NoneV, arrv.held[c])
    /\ UNCHANGED <<kind, capacity, cache, waiter, ckey, cval, recency,
                   encv, shardv>>

InitSharedErr ==
    /\ kind \in {"chunk_limit", "size_limit"}
    /\ capacity = 1
    /\ FreshCache
    /\ encv = 0
    /\ shardv = 0
    /\ arrv = SharedErrIdle

NextSharedErr ==
    \/ \E c \in Callers, k \in ConcKeys : TryGetOrInsertWith(c, k)
    \/ \E c \in Callers : ThunkOk(c, SomeV(<<7>>))
    \/ \E c \in Callers, err \in StorageErrors : ThunkErrShared(c, err)
    \/ \E c \in Callers : ReturnErr(c)
    \/ Housekeeping

SpecSharedErr == InitSharedErr /\ [][NextSharedErr]_vars

(* The callers released by a failing thunk all hold the one error, none a  *)
(* value.                                                                  *)
SharedByAllWaiters ==
    /\ obs.tag = "err" =>
           /\ obs.to # {}
           /\ \A c \in obs.to : pc[c] = "map_err" /\ arrv.held[c] = obs.n
    /\ \A c \in Callers : pc[c] = "map_err" <=> arrv.held[c] # 0
    /\ \A c \in Callers : pc[c] = "wait" => ckey[c] \in DOMAIN waiter

Returned == {c \in Callers : arrv.result[c].id # 0}

(* C22: a failing thunk gives its one error to every caller waiting on the *)
(* key, and retrieve_chunk_opt_cached returns to each of them the error    *)
(* the thunk produced.                                                     *)
C22_SharedErrorPropagation ==
    /\ SharedByAllWaiters
    /\ \A c \in Returned : arrv.result[c].err = arrv.errs[arrv.result[c].id]

(* C22, amended: a failing thunk gives its one error to every caller       *)
(* waiting on the key, and retrieve_chunk_opt_cached returns to each of    *)
(* them an error with the text of the thunk's error: the thunk's error     *)
(* itself, or a StorageError made of its text.                             *)
C22_SharedErrorText ==
    /\ SharedByAllWaiters
    /\ \A c \in Returned :
           LET produced == arrv.errs[arrv.result[c].id]
           IN /\ ErrToString(arrv.result[c].err) = ErrToString(produced)
              /\ arrv.result[c].err
                     \in {produced, StorageErrorFromString(ErrToString(produced))}

(* Two callers got the error of one thunk: the one that returned first     *)
(* a StorageError made of its text, the other the error itself.            *)
C22_Witness ==
    \E c1, c2 \in Callers :
        /\ c1 # c2
        /\ arrv.result[c1].id # 0
        /\ arrv.result[c1].id = arrv.result[c2].id
        /\ arrv.result[c2].err = arrv.errs[arrv.result[c2].id]
        /\ arrv.result[c1].err # arrv.result[c2].err

----------------------------------------------------------------------------
(* The size-limited caches, encoded and decoded, used by one thread.  The  *)
(* capacities of the decoded cache are the sizes of one value and of two.  *)
DecodedCapacities ==
    {0} \cup {ArrayBytesSize(v) : v \in DecodedValues}
        \cup {ArrayBytesSize(v1) + ArrayBytesSize(v2) : v1, v2 \in DecodedValues}

InitLruWeights ==
    /\ kind \in {"size_limit", "size_limit_decoded"}
    /\ capacity \in IF kind = "size_limit" THEN 0..MaxCapacity ELSE DecodedCapacities
    /\ FreshCache
    /\ IdleOthers

SpecLruWeights == InitLruWeights /\ [][NextLru]_vars

(* The weight of an entry: the length of the bytes of an encoded chunk, 0  *)
(* for an absent one; the bytes of a decoded chunk and its offsets.        *)
EntryWeight(v) ==
    IF kind = "size_limit" THEN (IF v.some THEN Len(v.bytes) ELSE 0)
    ELSE Len(v.bytes) + Len(v.offsets) * UsizeBytes

RECURSIVE SumOfWeights(_, _)
SumOfWeights(map, ks) ==
    IF ks = {} THEN 0
    ELSE LET k == CHOOSE x \in ks : TRUE
         IN EntryWeight(map[k]) + SumOfWeights(map, ks \ {k})

(* C23: size() of a size-limited cache is the sum of the weights of the    *)
(* entries resident when it returns, the weight of an entry being the      *)
(* length of its bytes (0 for an absent chunk) or its decoded size.        *)
C23_SizeIsSumOfWeights ==
    obs.tag = "size" => obs.n = SumOfWeights(cache.map, DOMAIN cache.map)

RECURSIVE SumOfCappedWeights(_, _)
SumOfCappedWeights(map, ks) ==
    IF ks = {} THEN 0
    ELSE LET k == CHOOSE x \in ks : TRUE
         IN Min(EntryWeight(map[k]), U32Max) + SumOfCappedWeights(map, ks \ {k})

(* C23, amended: size() of a size-limited cache is the sum of the weights  *)
(* of the entries resident when it returns, the weight of an entry being   *)
(* the smaller of u32::MAX and the length of its bytes (0 for an absent    *)
(* chunk) or its decoded size.                                             *)
C23_SizeIsSumOfCappedWeights ==
    obs.tag = "size" => obs.n = SumOfCappedWeights(cache.map, DOMAIN cache.map)

(* size() of a decoded cache that holds a fixed-width chunk and a          *)
(* variable-width chunk with two offsets.                                  *)
C23_Witness ==
    /\ obs.tag = "size"
    /\ kind = "size_limit_decoded"
    /\ \E k1, k2 \in DOMAIN cache.map :
           /\ cache.map[k1] = Fixed(<<7, 7>>)
           /\ cache.map[k2] = Variable(<<7>>, <<0, 1>>)
    /\ obs.n = 2 + 1 + 2 * UsizeBytes

(* size() of an encoded cache that holds an absent chunk and a chunk of    *)
(* two bytes: the absent chunk weighs nothing.                             *)
SizeWithAbsentChunk ==
    /\ obs.tag = "size"
    /\ kind = "size_limit"
    /\ \E k1, k2 \in DOMAIN cache.map :
           cache.map[k1] = NoneV /\ cache.map[k2] = SomeV(<<7, 7>>)
    /\ obs.n = 2

----------------------------------------------------------------------------
(* One LRU cache used by one thread, with the history of its inserts.      *)
(* arrv.last: the key and value of the call before if it was an insert;    *)
(* arrv.once: the cache as the first of a row of equal inserts left it;    *)
(* arrv.n: how many equal inserts there were in a row.  moka's             *)
(* housekeeping may run between two calls or not.                          *)
NoInsert == [k |-> 0, v |-> NoneV]
InsertHistory(last, once, n) == [last |-> last, once |-> once, n |-> n]

(* ChunkCache::insert                                                      *)
InsertInARow(k, v) ==
    /\ Len(cache.ops) < 2
    /\ cache' = CacheInsert(cache, k, v)
    /\ obs' = Obs("insert", {1}, k, v, 0)
    /\ recency' = Touch(recency, k)
    /\ arrv' = IF arrv.last = [k |-> k, v |-> v]
               THEN InsertHistory(arrv.last, arrv.once, 2)
               ELSE InsertHistory([k |-> k, v |-> v], CacheInsert(cache, k, v), 1)
    /\ UNCHANGED <<kind, capacity, waiter, pc, ckey, cval, encv, shardv>>

(* ChunkCache::get                                                         *)
GetBetweenInserts(k) ==
    /\ Len(cache.ops) < 2
    /\ cache' = CacheGet(cache, k)
    /\ obs' = IF k \in DOMAIN cache.map
              THEN Obs("hit", {1}, k, cache.map[k], 0)
              ELSE Obs("miss", {1}, k, NoneV, 0)
    /\ recency' = IF k \in DOMAIN cache.map THEN Touch(recency, k) ELSE recency
    /\ arrv' = InsertHistory(NoInsert, EmptyCache, 0)
    /\ UNCHANGED <<kind, capacity, waiter, pc, ckey, cval, encv, shardv>>

InitInsertTwice ==
    /\ kind \in {"chunk_limit", "size_limit"}
    /\ capacity \in 0..MaxCapacity
    /\ FreshCache
    /\ encv = 0
    /\ shardv = 0
    /\ arrv = InsertHistory(NoInsert, EmptyCache, 0)

NextInsertTwice ==
    \/ \E k \in Keys, v \in LruValues : InsertInARow(k, v)
    \/ \E k \in Keys : GetBetweenInserts(k)
    \/ Housekeeping

SpecInsertTwice == InitInsertTwice /\ [][NextInsertTwice]_vars

(* What a caller can see of cache c once moka's housekeeping has run:      *)
(* len(), size() and the result of get for every key.                      *)
Observable(c) ==
    LET h == Housekeep(c)
    IN [len |-> EntryCount(h), size |-> WeightedSize(h), get |-> h.map]

(* C24: after the second of two equal inserts in a row the cache shows     *)
(* what it showed after the first: the same len, the same size, the same   *)
(* result of get for every key.                                            *)
C24_InsertIdempotent ==
    arrv.n = 2 => Observable(cache) = Observable(arrv.once)

(* The second insert of a heavy entry that made the cache evict another.   *)
C24_Witness ==
    /\ arrv.n = 2
    /\ obs.tag = "insert"
    /\ kind = "size_limit"
    /\ capacity = 2
    /\ arrv.last.v = SomeV(<<7, 7>>)
    /\ Cardinality(Inserted) >= 2
    /\ Observable(cache).len = 1

----------------------------------------------------------------------------
(* Group metadata and its JSON form.  A JSON value is a number, a string,  *)
(* a boolean or an object (t tells which, and one of n, s, b, m holds it); *)
(* an object is the sequence of its members as they stand in the text, so  *)
(* that a key can stand in it twice.  A map of  *)
(* the program (attributes, additional fields, consolidated metadata) is a *)
(* function from keys to values.  arrv holds the scenario: the metadata    *)
(* value, the JSON it was serialised to and what was deserialised from it. *)
JNum(n) == [t |-> "num", n |-> n, s |-> "", b |-> FALSE, m |-> <<>>]
JStr(s) == [t |-> "str", n |-> 0, s |-> s, b |-> FALSE, m |-> <<>>]
JBool(b) == [t |-> "bool", n |-> 0, s |-> "", b |-> b, m |-> <<>>]
JObj(members) == [t |-> "obj", n |-> 0, s |-> "", b |-> FALSE, m |-> members]
Member(k, v) == [k |-> k, v |-> v]

IsNum(j, n) == j.t = "num" /\ j.n = n
IsStr(j, s) == j.t = "str" /\ j.s = s
IsBool(j, b) == j.t = "bool" /\ j.b = b

(* The members of a map, in the order of its keys.                         *)
KeyOrder ==
    <<"/subgroup", "attributes", "foo", "node_type", "spam">>
KeysInOrder(m) == SelectSeq(KeyOrder, LAMBDA k : k \in DOMAIN m)
MapMembers(m) ==
    [i \in 1..Len(KeysInOrder(m)) |->
        Member(KeysInOrder(m)[i], m[KeysInOrder(m)[i]])]

(* Reading the members of an object.                                       *)
MemberKeys(members) == {members[i].k : i \in 1..Len(members)}
Count(members, k) == Cardinality({i \in 1..Len(members) : members[i].k = k})
Lookup(members, k) ==
    members[CHOOSE i \in 1..Len(members) :
                /\ members[i].k = k
                /\ \A n \in 1..Len(members) : members[n].k = k => n <= i].v
MembersToMap(members, keys) == [k \in keys |-> Lookup(members, k)]

(* GroupMetadataV3 and ConsolidatedMetadata; zarr_format and node_type     *)
(* have one value each and are not fields of the model's record.           *)
ConsolidatedMetadata(metadata) ==
    [metadata |-> metadata, kind |-> "inline", must_understand |-> FALSE]
ConsolidatedMetadataDefault == ConsolidatedMetadata(EmptyFn)
ConsolidatedIsEmpty(c) == c.metadata = EmptyFn

GroupMetadataV3(attributes, consolidated, additional) ==
    [attributes |-> attributes, consolidated_metadata |-> consolidated,
     additional_fields |-> additional]
GroupMetadataV3New(attributes, additional) ==
    GroupMetadataV3(attributes, ConsolidatedMetadataDefault, additional)

KnownFields == {"zarr_format", "node_type", "attributes", "consolidated_metadata"}

(* Serialize, as derived: the fields in their order, attributes and        *)
(* consolidated_metadata skipped when empty, and the additional fields     *)
(* flattened into the same object.                                         *)
RECURSIVE GroupToJson(_)
ConsolidatedToJson(c) ==
    JObj(<<Member("metadata",
                  JObj(MapMembers([p \in DOMAIN c.metadata |->
                                      GroupToJson(c.metadata[p])]))),
           Member("kind", JStr(c.kind)),
           Member("must_understand", JBool(c.must_understand))>>)

GroupToJson(g) ==
    JObj(<<Member("zarr_format", JNum(3)), Member("node_type", JStr("group"))>>
         \o (IF g.attributes = EmptyFn THEN <<>>
             ELSE <<Member("attributes", JObj(MapMembers(g.attributes)))>>)
         \o (IF ConsolidatedIsEmpty(g.consolidated_metadata) THEN <<>>
             ELSE <<Member("consolidated_metadata",
                           ConsolidatedToJson(g.consolidated_metadata))>>)
         \o MapMembers(g.additional_fields))

(* Deserialize, as derived: a field that stands twice is an error, so is a *)
(* field of the wrong type or a missing zarr_format or node_type; missing  *)
(* attributes and consolidated_metadata are their defaults; every member   *)
(* with another key is an additional field.                                *)
Parsed(value) == [ok |-> TRUE, value |-> value]
ParseError == [ok |-> FALSE, value |-> GroupMetadataV3New(EmptyFn, EmptyFn)]

RECURSIVE GroupFromJson(_)
ConsolidatedFromJson(j) ==
    IF j.t # "obj" THEN [ok |-> FALSE, value |-> ConsolidatedMetadataDefault]
    ELSE IF \/ \E k \in {"metadata", "kind", "must_understand"} : Count(j.m, k) # 1
            \/ ~IsStr(Lookup(j.m, "kind"), "inline")
            \/ ~IsBool(Lookup(j.m, "must_understand"), FALSE)
            \/ Lookup(j.m, "metadata").t # "obj"
    THEN [ok |-> FALSE, value |-> ConsolidatedMetadataDefault]
    ELSE LET children == Lookup(j.m, "metadata").m
         IN IF \E p \in MemberKeys(children) : ~GroupFromJson(Lookup(children, p)).ok
            THEN [ok |-> FALSE, value |-> ConsolidatedMetadataDefault]
            ELSE [ok |-> TRUE,
                  value |-> ConsolidatedMetadata(
                                [p \in MemberKeys(children) |->
                                    GroupFromJson(Lookup(children, p)).value])]

(* As GroupFromJson, but the members with other keys are dropped.          *)
GroupFromJsonDropsUnknown(j) ==
    IF j.t # "obj" THEN ParseError
    ELSE IF \/ \E k \in KnownFields : Count(j.m, k) > 1
            \/ Count(j.m, "zarr_format") = 0
            \/ Count(j.m, "node_type") = 0
    THEN ParseError
    ELSE IF \/ ~IsNum(Lookup(j.m, "zarr_format"), 3)
            \/ ~IsStr(Lookup(j.m, "node_type"), "group")
            \/ Count(j.m, "attributes") = 1 /\ Lookup(j.m, "attributes").t # "obj"
    THEN ParseError
    ELSE LET consolidated ==
                 IF Count(j.m, "consolidated_metadata") = 1
                 THEN ConsolidatedFromJson(Lookup(j.m, "consolidated_metadata"))
                 ELSE [ok |-> TRUE, value |-> ConsolidatedMetadataDefault]
             attributes ==
                 IF Count(j.m, "attributes") = 1
                 THEN MembersToMap(Lookup(j.m, "attributes").m,
                                   MemberKeys(Lookup(j.m, "attributes").m))
                 ELSE EmptyFn
         IN IF ~consolidated.ok THEN ParseError
            ELSE Parsed(GroupMetadataV3(attributes, consolidated.value, EmptyFn))

GroupFromJson(j) ==
    IF j.t # "obj" THEN ParseError
    ELSE IF \/ \E k \in KnownFields : Count(j.m, k) > 1
            \/ Count(j.m, "zarr_format") = 0
            \/ Count(j.m, "node_type") = 0
    THEN ParseError
    ELSE IF \/ ~IsNum(Lookup(j.m, "zarr_format"), 3)
            \/ ~IsStr(Lookup(j.m, "node_type"), "group")
            \/ Count(j.m, "attributes") = 1 /\ Lookup(j.m, "attributes").t # "obj"
    THEN ParseError
    ELSE LET consolidated ==
                 IF Count(j.m, "consolidated_metadata") = 1
                 THEN ConsolidatedFromJson(Lookup(j.m, "consolidated_metadata"))
                 ELSE [ok |-> TRUE, value |-> ConsolidatedMetadataDefault]
             attributes ==
                 IF Count(j.m, "attributes") = 1
                 THEN MembersToMap(Lookup(j.m, "attributes").m,
                                   MemberKeys(Lookup(j.m, "attributes").m))
                 ELSE EmptyFn
         IN IF ~consolidated.ok THEN ParseError
            ELSE Parsed(GroupMetadataV3(
                            attributes, consolidated.value,
                            MembersToMap(j.m, MemberKeys(j.m) \ KnownFields)))

(* The metadata values of the scenario.  An additional field can have any  *)
(* name, that of a field of the struct included.                           *)
AttributeMaps == {EmptyFn, [k \in {"spam"} |-> JStr("ham")]}
AdditionalNames == {"foo", "attributes", "node_type"}
AdditionalValues == {JNum(1), JObj(<<Member("spam", JStr("ham"))>>)}
AdditionalMaps == UNION {[S -> AdditionalValues] : S \in SUBSET AdditionalNames}
ChildMetadata == {GroupMetadataV3New(a, EmptyFn) : a \in AttributeMaps}
ConsolidatedMaps ==
    {EmptyFn} \cup {[p \in {"/subgroup"} |-> child] : child \in ChildMetadata}
GroupValues ==
    {GroupMetadataV3(a, ConsolidatedMetadata(c), f) :
        a \in AttributeMaps, c \in ConsolidatedMaps, f \in AdditionalMaps}

GroupScenario(pos, value, json, back) ==
    [pos |-> pos, value |-> value, json |-> json, back |-> back]

InitGroup ==
    /\ IdleCache
    /\ encv = 0
    /\ shardv = 0
    /\ \E g \in GroupValues : arrv = GroupScenario("built", g, JObj(<<>>), ParseError)

(* serde_json::to_string of the value.                                     *)
ToJson ==
    /\ arrv.pos = "built"
    /\ arrv' = GroupScenario("serialised", arrv.value, GroupToJson(arrv.value),
                             arrv.back)
    /\ UNCHANGED <<kind, capacity, cache, waiter, pc, ckey, cval, obs, recency,
                   encv, shardv>>

(* serde_json::from_str of the JSON.                                       *)
FromJson ==
    /\ arrv.pos = "serialised"
    /\ arrv' = GroupScenario("parsed", arrv.value, arrv.json,
                             GroupFromJson(arrv.json))
    /\ UNCHANGED <<kind, capacity, cache, waiter, pc, ckey, cval, obs, recency,
                   encv, shardv>>

NextGroup ==
    \/ ToJson
    \/ FromJson

SpecGroup == InitGroup /\ [][NextGroup]_vars

(* What the claim says of a value that went to JSON and back.              *)
RoundTrip ==
    /\ arrv.back.ok
    /\ arrv.back.value = arrv.value
    /\ arrv.back.value.additional_fields = arrv.value.additional_fields
    /\ \A p \in DOMAIN arrv.value.consolidated_metadata.metadata :
           /\ p \in DOMAIN arrv.back.value.consolidated_metadata.metadata
           /\ arrv.back.value.consolidated_metadata.metadata[p]
                  = GroupFromJson(GroupToJson(
                        arrv.value.consolidated_metadata.metadata[p])).value
    /\ arrv.back.value.consolidated_metadata.kind = "inline"
    /\ arrv.back.value.consolidated_metadata.must_understand = FALSE
    /\ arrv.value.attributes = EmptyFn =>
           /\ Count(arrv.json.m, "attributes") = 0
           /\ arrv.back.value.attributes = EmptyFn
    /\ ConsolidatedIsEmpty(arrv.value.consolidated_metadata) =>
           /\ Count(arrv.json.m, "consolidated_metadata") = 0
           /\ arrv.back.value.consolidated_metadata = ConsolidatedMetadataDefault

(* C25: a GroupMetadataV3 serialised to JSON and deserialised is the value *)
(* it was: additional fields and consolidated entries as before, empty     *)
(* attributes and empty consolidated metadata left out of the JSON and     *)
(* back as defaults.                                                       *)
C25_GroupRoundTrip ==
    arrv.pos = "parsed" => RoundTrip

(* C25, amended: the same for a value none of whose additional fields has  *)
(* the name of a field of the struct.                                      *)
C25_GroupRoundTripUnknownFields ==
    (arrv.pos = "parsed"
        /\ DOMAIN arrv.value.additional_fields \cap KnownFields = {}) => RoundTrip

(* A value with attributes, a consolidated child and an additional field   *)
(* that is an object came back.                                            *)
C25_Witness ==
    /\ arrv.pos = "parsed"
    /\ arrv.back.ok
    /\ arrv.value.attributes # EmptyFn
    /\ DOMAIN arrv.value.consolidated_metadata.metadata = {"/subgroup"}
    /\ DOMAIN arrv.value.additional_fields = {"foo"}
    /\ arrv.value.additional_fields["foo"].t = "obj"
    /\ arrv.back.value = arrv.value

(* A value without attributes and without consolidated metadata came back  *)
(* from a JSON of two members.                                             *)
EmptyGroupRoundTrip ==
    /\ arrv.pos = "parsed"
    /\ Len(arrv.json.m) = 2
    /\ arrv.back.ok
    /\ arrv.back.value = GroupMetadataV3New(EmptyFn, EmptyFn)

----------------------------------------------------------------------------
(* The sharding partial encoder called with up to MaxPairsPerCall pairs.   *)
(* The bytes of a pair are the same element value throughout.  shardv      *)
(* holds in reads the inner chunks the first loop read from the shard and  *)
(* in calls the number of calls so far, at most MaxCalls.                  *)
MaxPairsPerCall == 2
MaxCalls == 2

UniformPairs ==
    {p \in ShardPairs :
        \E v \in ElementValues :
            p.bytes = Flatten([i \in 1..p.subset.shape |-> v])}

(* The reads of the first loop of partial_encode_opt, in order.            *)
InnerChunkDecodes(st, loc, pairs) ==
    LET read == DecodeShardIndex(st, loc)
        index0 == IF read.some THEN read.bytes ELSE SentinelIndex
    IN IF ~read.ok THEN <<>>
       ELSE UpdateInnerChunks(Acc(TRUE, index0, EmptyFn, <<>>), st, pairs).reads

ShardPartialEncodeOptPairs ==
    /\ shardv.status = "idle"
    /\ shardv.calls < MaxCalls
    /\ \E n \in 1..MaxPairsPerCall : \E pairs \in [1..n -> UniformPairs] :
           \E order \in Orders(InnerChunksTouched(pairs)) :
               \E r \in {ShardingPartialEncoder(shardv.store, shardv.loc, pairs, order)} :
                   /\ r.store.some => Len(r.store.bytes) <= MaxShardBytes
                   /\ shardv' = [loc |-> shardv.loc, store |-> r.store,
                                 status |-> r.status, prev |-> shardv.store,
                                 pairs |-> pairs, index |-> r.index, log |-> r.log,
                                 reads |-> InnerChunkDecodes(shardv.store,
                                                             shardv.loc, pairs),
                                 calls |-> shardv.calls + 1]
    /\ UNCHANGED <<kind, capacity, cache, waiter, pc, ckey, cval, obs, recency,
                   encv, arrv>>

(* The call is over; its arguments are dropped.                            *)
ShardReturnPairs ==
    /\ shardv.status # "idle"
    /\ shardv' = IdleShard(shardv.loc, shardv.store)
                      @@ [reads |-> <<>>, calls |-> shardv.calls]
    /\ UNCHANGED <<kind, capacity, cache, waiter, pc, ckey, cval, obs, recency,
                   encv, arrv>>

InitShardPairs ==
    /\ IdleCache
    /\ encv = 0
    /\ arrv = 0
    /\ \E loc \in IndexLocations :
           shardv = IdleShard(loc, NoneV) @@ [reads |-> <<>>, calls |-> 0]

NextShardPairs ==
    \/ ShardPartialEncodeOptPairs
    \/ ShardReturnPairs

SpecShardPairs == InitShardPairs /\ [][NextShardPairs]_vars

ReadsOf(j) == {i \in 1..Len(shardv.reads) : shardv.reads[i] = j}
WritesOf(j) == {i \in ChunkWrites : shardv.log[i].j = j}
PairsTouching(j) ==
    {i \in 1..Len(shardv.pairs) : j \in ChunksInArraySubset(shardv.pairs[i].subset)}

(* C26: in one successful sharding partial encode each touched inner chunk *)
(* is read from the shard at most once and written exactly once, whatever  *)
(* the number of pairs that touch it, no other inner chunk is written, and *)
(* the one write holds the inner chunk with the bytes of all pairs on it.  *)
C26_DecodeOnceWriteOnce ==
    shardv.status = "ok" =>
        /\ \A j \in ShardTouched :
               /\ Cardinality(ReadsOf(j)) <= 1
               /\ Cardinality(WritesOf(j)) = 1
               /\ WrittenInnerChunk(j).ok
               /\ WrittenInnerChunk(j).bytes
                      = InnerChunkOf(Overwritten(PrevDecoded, shardv.pairs), j)
        /\ \A j \in InnerChunks \ ShardTouched :
               ReadsOf(j) = {} /\ WritesOf(j) = {}

(* Two pairs with different bytes on one inner chunk that the shard held:  *)
(* one read, one write.                                                    *)
C26_Witness ==
    /\ shardv.status = "ok"
    /\ Len(shardv.pairs) = 2
    /\ shardv.pairs[1].bytes # shardv.pairs[2].bytes
    /\ shardv.pairs[1].subset # shardv.pairs[2].subset
    /\ \E j \in ShardTouched :
           /\ PairsTouching(j) = {1, 2}
           /\ Cardinality(ReadsOf(j)) = 1
           /\ Cardinality(WritesOf(j)) = 1


(* A well-formed shard index: the byte regions of the entries that are not *)
(* the sentinel are disjoint in pairs, and with the index at the start of  *)
(* the shard none begins inside the encoded index.                         *)
PresentEntries(index) == {j \in InnerChunks : ~IsSentinel(index, j)}
WellFormedIndex(index, loc) ==
    /\ \A j, k \in PresentEntries(index) :
           j # k => ~RangesMeet(IndexOffset(index, j), IndexSize(index, j),
                                IndexOffset(index, k), IndexSize(index, k))
    /\ loc = "Start" =>
           \A j \in PresentEntries(index) : IndexOffset(index, j) >= IndexEncodedSize

(* C27: a successful sharding partial encode on a shard with a well-formed *)
(* index writes a well-formed index, and each inner chunk it wrote lies    *)
(* where its entry of the new index says.                                  *)
C27_IndexWellFormed ==
    (shardv.status = "ok" /\ WellFormedIndex(PrevIndex, shardv.loc)) =>
        /\ WellFormedIndex(shardv.index, shardv.loc)
        /\ \A i \in ChunkWrites :
               /\ IndexOffset(shardv.index, shardv.log[i].j) = shardv.log[i].offset
               /\ IndexSize(shardv.index, shardv.log[i].j) = shardv.log[i].len

(* A call on a shard that held both inner chunks rewrote one of them.      *)
C27_Witness ==
    /\ shardv.status = "ok"
    /\ PresentEntries(PrevIndex) = InnerChunks
    /\ WellFormedIndex(PrevIndex, shardv.loc)
    /\ Cardinality(ShardTouched) = 1
    /\ PresentEntries(shardv.index) = InnerChunks
    /\ shardv.index # PrevIndex


(***************************************************************************)
(* The default bytes partial encoder (bytes_partial_encoder_default.rs).   *)
(* A bytes-to-bytes codec sits between the caller and the store: the call  *)
(* decodes the whole stored value, resizes it to the largest range end of  *)
(* the call, copies the ranges in, and writes the re-encoded value at 0.   *)
(***************************************************************************)
MaxByteCalls == 2
MaxRangeOffset == 2
MaxPrevLen == 4

(* The bytes-to-bytes codec: a frame holding the decoded length, then the  *)
(* payload transformed byte by byte (here: reversed).  Decoding a value    *)
(* whose frame does not match its payload fails.                           *)
BytesToBytesEncode(b) == <<Len(b)>> \o Reverse(b)
BytesToBytesDecode(e) ==
    IF Len(e) >= 1 /\ e[1] = Len(e) - 1 THEN Ok(Reverse(Tail(e))) ELSE Err

(* ByteRange::FromStart(offset, len) and ByteRange::FromEnd(offset, len),  *)
(* each with the bytes given for it; NoLength is a len of None.            *)
NoLength == 0 - 1
FromStart(offset, len, b) ==
    [from |-> "start", offset |-> offset, len |-> len, bytes |-> b]
FromEnd(offset, len, b) ==
    [from |-> "end", offset |-> offset, len |-> len, bytes |-> b]
RangeBytes == {<<1>>, <<1, 1>>, <<2, 2>>}
ByteRanges ==
    {FromStart(o, l, b) : o \in 0..MaxRangeOffset, l \in {NoLength},
                          b \in RangeBytes}
        \cup {FromStart(o, Len(b), b) : o \in {0, 1}, b \in RangeBytes}
        \cup {FromStart(0, 2, <<1>>), FromEnd(0, 1, <<1>>)}
RangeLists ==
    {<<>>} \cup {<<r>> : r \in ByteRanges}
           \cup {<<r, s>> : r \in ByteRanges, s \in ByteRanges}

RangeEnd(r) == r.offset + Len(r.bytes)
RECURSIVE MaxRangeEnd(_, _)
MaxRangeEnd(ranges, i) ==
    IF i > Len(ranges) THEN 0
    ELSE Max(RangeEnd(ranges[i]), MaxRangeEnd(ranges, i + 1))

(* Vec::resize(n, 0): cut to n bytes or fill with zeros up to n bytes.     *)
Resize(b, n) ==
    IF n <= Len(b) THEN SubSeq(b, 1, n) ELSE b \o Zeros(n - Len(b))

(* decoded_value[offset..offset + len].copy_from_slice(bytes).             *)
CopyFromSlice(d, offset, b) ==
    [i \in 1..Len(d) |->
        IF i > offset /\ i <= offset + Len(b) THEN b[i - offset] ELSE d[i]]
RECURSIVE CopyRanges(_, _, _)
CopyRanges(d, ranges, i) ==
    IF i > Len(ranges) THEN d
    ELSE CopyRanges(CopyFromSlice(d, ranges[i].offset, ranges[i].bytes),
                    ranges, i + 1)

(* The call panics on a range from the end (todo!), on a length that is    *)
(* not the length of the bytes (assert_eq!), and on an empty list of       *)
(* ranges (max of nothing, unwrapped).                                     *)
RangePanics(r) ==
    \/ r.from = "end"
    \/ r.len # NoLength /\ r.len # Len(r.bytes)
Panics(ranges) ==
    \/ ranges = <<>>
    \/ \E i \in 1..Len(ranges) : RangePanics(ranges[i])

BytesResult(status, st, prev, decoded) ==
    [status |-> status, store |-> st, prev |-> prev, decoded |-> decoded]

(* BytesPartialEncoderDefault::partial_encode_opt: the store after it, the *)
(* value it decoded and the value it encoded.                              *)
BytesPartialEncodeKeepsLength(st, ranges) ==
    LET encoded_value == IF st.some THEN BytesToBytesDecode(st.bytes)
                         ELSE Ok(<<>>)
        kept == Max(Len(encoded_value.bytes), MaxRangeEnd(ranges, 1))
        decoded_value == CopyRanges(Resize(encoded_value.bytes, kept),
                                    ranges, 1)
    IN IF ~encoded_value.ok THEN BytesResult("err", st, <<>>, <<>>)
       ELSE IF Panics(ranges) THEN BytesResult("panic", st, <<>>, <<>>)
       ELSE BytesResult("ok",
                        StorePartialEncode(st, 0,
                                           BytesToBytesEncode(decoded_value)),
                        encoded_value.bytes, decoded_value)

BytesPartialEncode(st, ranges) ==
    LET encoded_value == IF st.some THEN BytesToBytesDecode(st.bytes)
                         ELSE Ok(<<>>)
        decoded_value_len == MaxRangeEnd(ranges, 1)
        decoded_value == CopyRanges(Resize(encoded_value.bytes,
                                           decoded_value_len), ranges, 1)
        bytes_encoded == BytesToBytesEncode(decoded_value)
    IN IF ~encoded_value.ok THEN BytesResult("err", st, <<>>, <<>>)
       ELSE IF Panics(ranges) THEN BytesResult("panic", st, <<>>, <<>>)
       ELSE BytesResult("ok", StorePartialEncode(st, 0, bytes_encoded),
                        encoded_value.bytes, decoded_value)

(* The stored values a call can find: nothing, encodings of values of each *)
(* length, and a value that does not decode.                               *)
RECURSIVE Nines(_)
Nines(n) == IF n <= 0 THEN <<>> ELSE <<9>> \o Nines(n - 1)
BytesStored ==
    {NoneV, SomeV(<<9>>)}
        \cup {SomeV(BytesToBytesEncode(Nines(n))) : n \in 0..MaxPrevLen}

BytesScenario(pos, st, ranges, r, calls) ==
    [pos |-> pos, store |-> st, ranges |-> ranges, status |-> r.status,
     prev |-> r.prev, decoded |-> r.decoded, calls |-> calls]
NoBytesResult == BytesResult("none", NoneV, <<>>, <<>>)

InitBytes ==
    /\ IdleCache
    /\ shardv = 0
    /\ arrv = 0
    /\ \E st \in BytesStored :
           encv = BytesScenario("idle", st, <<>>, NoBytesResult, 0)

BytesPartialEncodeOpt ==
    /\ encv.pos = "idle"
    /\ encv.calls < MaxByteCalls
    /\ \E ranges \in RangeLists :
       \E r \in {BytesPartialEncode(encv.store, ranges)} :
           encv' = BytesScenario("called", r.store, ranges, r,
                                 encv.calls + 1)
    /\ UNCHANGED <<kind, capacity, cache, waiter, pc, ckey, cval, obs, recency,
                   shardv, arrv>>

(* BytesPartialEncoderDefault::erase: the output handle erases.            *)
BytesErase ==
    /\ encv.pos = "idle"
    /\ encv.calls < MaxByteCalls
    /\ encv.store.some
    /\ encv' = BytesScenario("called", NoneV, <<>>,
                             BytesResult("erased", NoneV, <<>>, <<>>),
                             encv.calls + 1)
    /\ UNCHANGED <<kind, capacity, cache, waiter, pc, ckey, cval, obs, recency,
                   shardv, arrv>>

BytesReturn ==
    /\ encv.pos = "called"
    /\ encv' = BytesScenario("idle", encv.store, <<>>, NoBytesResult,
                             encv.calls)
    /\ UNCHANGED <<kind, capacity, cache, waiter, pc, ckey, cval, obs, recency,
                   shardv, arrv>>

NextBytes ==
    \/ BytesPartialEncodeOpt
    \/ BytesErase
    \/ BytesReturn

SpecBytes == InitBytes /\ [][NextBytes]_vars

BytesCallOk == encv.pos = "called" /\ encv.status = "ok"
Covers(r, i) == i > r.offset /\ i <= RangeEnd(r)
Covered(ranges, i) == \E n \in 1..Len(ranges) : Covers(ranges[n], i)
LaterCovers(ranges, n, i) ==
    \E m \in (n + 1)..Len(ranges) : Covers(ranges[m], i)

(* What the claim says of every position no range covers, of the length,   *)
(* and of what is written.                                                 *)
UncoveredAndLength ==
    LET d == encv.decoded
        p == encv.prev
        written == BytesToBytesEncode(d)
    IN /\ Len(d) = MaxRangeEnd(encv.ranges, 1)
       /\ \A i \in 1..Len(d) :
              ~Covered(encv.ranges, i) =>
                  d[i] = (IF i <= Len(p) THEN p[i] ELSE 0)
       /\ encv.store.some
       /\ SubSeq(encv.store.bytes, 1, Len(written)) = written

(* C30: after a successful call with ranges from the start, the value that *)
(* is encoded and written is as long as the largest range end of the call, *)
(* every range holds its new bytes, every other position below the         *)
(* previous length keeps its byte, every other position beyond it is zero, *)
(* and what the previous value held at or beyond the largest range end is  *)
(* gone.                                                                   *)
C30_RangesHoldNewBytes ==
    BytesCallOk =>
        /\ UncoveredAndLength
        /\ \A n \in 1..Len(encv.ranges) :
           \A i \in 1..Len(encv.ranges[n].bytes) :
               encv.decoded[encv.ranges[n].offset + i]
                   = encv.ranges[n].bytes[i]

(* C30, amended: as above, but a range holds its new bytes only where no   *)
(* later range of the call covers the position; there the bytes of the     *)
(* last range covering it are held.                                        *)
C30_LastRangeHoldsNewBytes ==
    BytesCallOk =>
        /\ UncoveredAndLength
        /\ \A n \in 1..Len(encv.ranges) :
           \A i \in 1..Len(encv.ranges[n].bytes) :
               ~LaterCovers(encv.ranges, n, encv.ranges[n].offset + i) =>
                   encv.decoded[encv.ranges[n].offset + i]
                       = encv.ranges[n].bytes[i]

(* A call whose second range overlaps its first with other bytes, on a     *)
(* previous value longer than the largest range end.                       *)
C30_Witness ==
    /\ BytesCallOk
    /\ Len(encv.ranges) = 2
    /\ \E i \in 1..Len(encv.decoded) :
           /\ Covers(encv.ranges[1], i)
           /\ Covers(encv.ranges[2], i)
           /\ encv.ranges[1].bytes[i - encv.ranges[1].offset]
                  # encv.ranges[2].bytes[i - encv.ranges[2].offset]
    /\ Len(encv.prev) > Len(encv.decoded)

(* A call that leaves a gap between the previous value and its range.      *)
ZeroFilledGap ==
    /\ BytesCallOk
    /\ \E i \in 1..Len(encv.decoded) :
           /\ i > Len(encv.prev)
           /\ ~Covered(encv.ranges, i)
           /\ encv.decoded[i] = 0


(***************************************************************************)
(* The sharding partial encoder with a bytes-to-bytes codec after it: its  *)
(* input handle reads from the decoded stored value, and its output handle *)
(* is the default bytes partial encoder, called once for each updated      *)
(* inner chunk and once for the index.                                     *)
(***************************************************************************)

(* What the input handle of the sharding partial encoder reads from.       *)
DecodedShard(st) ==
    IF ~st.some THEN [ok |-> TRUE, value |-> NoneV]
    ELSE IF BytesToBytesDecode(st.bytes).ok
    THEN [ok |-> TRUE, value |-> SomeV(BytesToBytesDecode(st.bytes).bytes)]
    ELSE [ok |-> FALSE, value |-> NoneV]

Through(ok, st, index, offset) ==
    [ok |-> ok, store |-> st, index |-> index, offset |-> offset]

(* output_handle.partial_encode of one range from the start.               *)
OutputPartialEncode(w, offset, b) ==
    LET r == BytesPartialEncode(w.store, <<FromStart(offset, Len(b), b)>>)
    IN IF ~w.ok THEN w
       ELSE Through(r.status = "ok", r.store, w.index, w.offset)

WriteInnerChunkThrough(w, j, decoded) ==
    LET encoded == InnerCodecEncode(decoded)
        out == OutputPartialEncode(w, w.offset, encoded)
    IN Through(out.ok, out.store,
               SetEntry(w.index, j, w.offset, Len(encoded)),
               w.offset + Len(encoded))

RECURSIVE WriteInnerChunksThrough(_, _, _)
WriteInnerChunksThrough(w, updated, order) ==
    IF order = <<>> THEN w
    ELSE WriteInnerChunksThrough(
             WriteInnerChunkThrough(w, Head(order), updated[Head(order)]),
             updated, Tail(order))

(* The index encoded and written at its location.                          *)
WriteShardIndexThrough(w, loc) ==
    OutputPartialEncode(w, IF loc = "Start" THEN 0 ELSE w.offset,
                        IndexCodecEncode(w.index))

(* ShardingPartialEncoder::partial_encode_opt on the stored value st: the  *)
(* store after it, the index it wrote, and the encoded inner chunks it     *)
(* wrote.                                                                  *)
ShardingThroughBytes(st, loc, pairs, order) ==
    LET in == DecodedShard(st)
        read == DecodeShardIndex(in.value, loc)
        index0 == IF read.some THEN read.bytes ELSE SentinelIndex
        acc == UpdateInnerChunks(Acc(TRUE, index0, EmptyFn, <<>>), in.value, pairs)
        w == WriteShardIndexThrough(
                 WriteInnerChunksThrough(
                     Through(TRUE, st, acc.index, OffsetAppend(acc.index, loc)),
                     acc.updated, order),
                 loc)
    IN IF ~in.ok \/ ~read.ok \/ ~acc.ok
       THEN [status |-> "err", store |-> st, index |-> index0, wrote |-> EmptyFn]
       ELSE [status |-> IF w.ok THEN "ok" ELSE "err", store |-> w.store,
             index |-> w.index,
             wrote |-> [j \in DOMAIN acc.updated |->
                           InnerCodecEncode(acc.updated[j])]]

(* chunks: the encoded inner chunks that successful calls wrote last.      *)
ShardBytesScenario(loc, st, status, pairs, index, chunks, calls) ==
    [loc |-> loc, store |-> st, status |-> status, pairs |-> pairs,
     index |-> index, chunks |-> chunks, calls |-> calls]

InitShardBytes ==
    /\ IdleCache
    /\ encv = 0
    /\ arrv = 0
    /\ \E loc \in IndexLocations :
           shardv = ShardBytesScenario(loc, NoneV, "idle", <<>>, <<>>, EmptyFn, 0)

ShardPartialEncodeOptBytes ==
    /\ shardv.status = "idle"
    /\ shardv.calls < MaxCalls
    /\ \E n \in 0..MaxShardPairs : \E pairs \in [1..n -> ShardPairs] :
       \E order \in Orders(InnerChunksTouched(pairs)) :
       \E r \in {ShardingThroughBytes(shardv.store, shardv.loc, pairs, order)} :
           shardv' = ShardBytesScenario(
                         shardv.loc, r.store, r.status, pairs, r.index,
                         IF r.status = "ok"
                         THEN [j \in DOMAIN shardv.chunks \cup DOMAIN r.wrote |->
                                  IF j \in DOMAIN r.wrote THEN r.wrote[j]
                                  ELSE shardv.chunks[j]]
                         ELSE shardv.chunks,
                         shardv.calls + 1)
    /\ UNCHANGED <<kind, capacity, cache, waiter, pc, ckey, cval, obs, recency,
                   encv, arrv>>

ShardReturnBytes ==
    /\ shardv.status # "idle"
    /\ shardv' = ShardBytesScenario(shardv.loc, shardv.store, "idle", <<>>, <<>>,
                                    shardv.chunks, shardv.calls)
    /\ UNCHANGED <<kind, capacity, cache, waiter, pc, ckey, cval, obs, recency,
                   encv, arrv>>

NextShardBytes ==
    \/ ShardPartialEncodeOptBytes
    \/ ShardReturnBytes

SpecShardBytes == InitShardBytes /\ [][NextShardBytes]_vars

(* The decoded shard held downstream, and what the claim says of it.       *)
Downstream == DecodedShard(shardv.store)
EntriesWithin(shard) ==
    \A j \in InnerChunks :
        ~IsSentinel(shardv.index, j) =>
            /\ IndexOffset(shardv.index, j) >= 0
            /\ IndexSize(shardv.index, j) >= 0
            /\ EntryEnd(shardv.index, j) <= Len(shard)
EntriesHoldWritten(shard) ==
    \A j \in InnerChunks :
        ~IsSentinel(shardv.index, j) =>
            /\ j \in DOMAIN shardv.chunks
            /\ EntryEnd(shardv.index, j) <= Len(shard)
            /\ SubSeq(shard, IndexOffset(shardv.index, j) + 1,
                      EntryEnd(shardv.index, j)) = shardv.chunks[j]
IndexReadBack(st, loc) ==
    /\ DecodeShardIndex(st, loc).ok
    /\ DecodeShardIndex(st, loc).some
    /\ DecodeShardIndex(st, loc).bytes = shardv.index
DownstreamWellFormed ==
    /\ Downstream.ok
    /\ Downstream.value.some
    /\ EntriesWithin(Downstream.value.bytes)
    /\ EntriesHoldWritten(Downstream.value.bytes)
    /\ IndexReadBack(Downstream.value, shardv.loc)

(* C28: after a successful sharding partial encode whose output handle is  *)
(* the default bytes partial encoder, for both index locations, every      *)
(* index entry other than the sentinel ends within the decoded shard held  *)
(* downstream, the bytes at each entry are the bytes written for it, and   *)
(* the index reads back at its location.                                   *)
C28_ShardingThroughBytes ==
    shardv.status = "ok" => DownstreamWellFormed

(* The same for a shard with the index at the end.                         *)
EndLocatedThroughBytes ==
    (shardv.status = "ok" /\ shardv.loc = "End") => DownstreamWellFormed

(* A successful call that writes an inner chunk of an end-located shard.    *)
EndLocatedWritten ==
    /\ shardv.status = "ok"
    /\ shardv.loc = "End"
    /\ shardv.pairs # <<>>
    /\ DownstreamWellFormed

(* A second call on an end-located shard fails after its first write: the  *)
(* write cut the decoded shard below its previous length, the stored value *)
(* keeps the end of the previous encoding, and no longer decodes.          *)
EndLocatedSecondCallFails ==
    /\ shardv.status = "err"
    /\ shardv.loc = "End"
    /\ shardv.calls = 2
    /\ shardv.pairs # <<>>
    /\ ~Downstream.ok

(* A start-located shard after a successful call that wrote an inner       *)
(* chunk: the value encoded last is the encoded index and nothing else,    *)
(* and the stored value, which keeps the end of the previous encoding, no  *)
(* longer decodes.                                                         *)
StartLocatedTruncated ==
    /\ shardv.status = "ok"
    /\ shardv.loc = "Start"
    /\ shardv.pairs # <<>>
    /\ \E j \in InnerChunks : ~IsSentinel(shardv.index, j)
    /\ SubSeq(shardv.store.bytes, 1, IndexEncodedSize + 1)
           = BytesToBytesEncode(IndexCodecEncode(shardv.index))
    /\ ~Downstream.ok


(***************************************************************************)
(* One partial encode call with several pairs, on a chunk behind one of    *)
(* the default partial encoders or on a shard behind the sharding partial  *)
(* encoder.  arrv says which encoder the scenario is about; the state of   *)
(* the other one is not used.                                              *)
(***************************************************************************)
PartialEncoders == {"default", "sharding"}

InitArgOrder ==
    /\ IdleCache
    /\ \E which \in PartialEncoders :
           /\ arrv = which
           /\ IF which = "default"
              THEN /\ \E e \in Encoders : \E st \in StoredChunks(e) :
                          encv = IdleEnc(e, st)
                   /\ shardv = 0
              ELSE /\ encv = 0
                   /\ \E loc \in IndexLocations :
                          shardv = IdleShard(loc, NoneV)
                                       @@ [reads |-> <<>>, calls |-> 0]

DefaultPartialEncodeOpt == arrv = "default" /\ PartialEncodeOpt
DefaultReturn == arrv = "default" /\ EncReturn
ShardingPartialEncodeOpt == arrv = "sharding" /\ ShardPartialEncodeOptPairs
ShardingReturn == arrv = "sharding" /\ ShardReturnPairs

NextArgOrder ==
    \/ DefaultPartialEncodeOpt
    \/ DefaultReturn
    \/ ShardingPartialEncodeOpt
    \/ ShardingReturn

SpecArgOrder == InitArgOrder /\ [][NextArgOrder]_vars

(* The pairs applied one after another to a decoded value: each pair's     *)
(* bytes stand at the bytes of its subset.                                 *)
PairApplied(before, pair) ==
    [p \in 1..Len(before) |->
        IF /\ p > NumBytes(pair.subset.start)
           /\ p <= NumBytes(pair.subset.start + pair.subset.shape)
        THEN pair.bytes[p - NumBytes(pair.subset.start)]
        ELSE before[p]]
RECURSIVE PairsApplied(_, _, _)
PairsApplied(before, pairs, i) ==
    IF i > Len(pairs) THEN before
    ELSE PairsApplied(PairApplied(before, pairs[i]), pairs, i + 1)

(* Where pairs overlap, the bytes of the later pair are there.             *)
LaterPairWins(after, pairs) ==
    \A i \in 1..Len(pairs) : \A k \in (i + 1)..Len(pairs) :
    \A p \in 1..Len(after) :
        (/\ p > NumBytes(pairs[i].subset.start)
         /\ p <= NumBytes(pairs[i].subset.start + pairs[i].subset.shape)
         /\ p > NumBytes(pairs[k].subset.start)
         /\ p <= NumBytes(pairs[k].subset.start + pairs[k].subset.shape)
         /\ \A m \in (k + 1)..Len(pairs) :
                ~(/\ p > NumBytes(pairs[m].subset.start)
                  /\ p <= NumBytes(pairs[m].subset.start + pairs[m].subset.shape)))
            => after[p] = pairs[k].bytes[p - NumBytes(pairs[k].subset.start)]

InArgumentOrder(before, after, pairs) ==
    /\ after = PairsApplied(before, pairs, 1)
    /\ LaterPairWins(after, pairs)

(* C29: after a successful partial encode call with several pairs, on a    *)
(* default encoder or on the sharding encoder, the chunk read back is the  *)
(* chunk decoded before the call with the pairs applied one after another  *)
(* in the order of the arguments; where subsets overlap, the bytes of the  *)
(* later pair are there.                                                   *)
C29_ArgumentOrder ==
    /\ (arrv = "default" /\ encv.status = "ok") =>
           InArgumentOrder(RetrieveChunk(encv.enc, encv.prev),
                           RetrieveChunk(encv.enc, encv.store), encv.pairs)
    /\ (arrv = "sharding" /\ shardv.status = "ok") =>
           InArgumentOrder(PrevDecoded, RetrieveShard(shardv.store, shardv.loc),
                           shardv.pairs)

PairsOverlapDiffer(pairs) ==
    /\ Len(pairs) = 2
    /\ pairs[1].subset # pairs[2].subset
    /\ \E p \in 1..NumBytes(ShardLen) :
           /\ p > NumBytes(pairs[1].subset.start)
           /\ p <= NumBytes(pairs[1].subset.start + pairs[1].subset.shape)
           /\ p > NumBytes(pairs[2].subset.start)
           /\ p <= NumBytes(pairs[2].subset.start + pairs[2].subset.shape)
           /\ pairs[1].bytes[p - NumBytes(pairs[1].subset.start)]
                  # pairs[2].bytes[p - NumBytes(pairs[2].subset.start)]

(* A sharding call on a shard that held data, with two overlapping pairs   *)
(* of different bytes, the first of them reaching into both inner chunks.  *)
C29_Witness ==
    /\ arrv = "sharding"
    /\ shardv.status = "ok"
    /\ shardv.prev.some
    /\ PairsOverlapDiffer(shardv.pairs)
    /\ ChunksInArraySubset(shardv.pairs[1].subset) = InnerChunks
    /\ RetrieveShard(shardv.store, shardv.loc) # PrevDecoded

(* The same on each of the default encoders.                               *)
DefaultOverlapWritten ==
    /\ arrv = "default"
    /\ encv.status = "ok"
    /\ encv.enc = "a2a"
    /\ encv.prev.some
    /\ PairsOverlapDiffer(encv.pairs)


(***************************************************************************)
(* The output actions of the default array-to-bytes partial encoder.  The  *)
(* read of the stored chunk or the encoding of the updated chunk may fail; *)
(* out holds the calls made on the output handle, in order.                *)
(***************************************************************************)
EncodeFailures == {"none", "read", "encode"}

OutErase == [what |-> "erase", offset |-> 0, bytes |-> <<>>]
OutWrite(offset, b) == [what |-> "write", offset |-> offset, bytes |-> b]
OutResult(status, st, out) == [status |-> status, store |-> st, out |-> out]

(* As ArrayPartialEncoderDefaultOut, but a chunk that fails validation is  *)
(* erased before the error is returned.                                    *)
ArrayPartialEncoderDefaultErasesInvalid(st, pairs, storeEmpty, fails) ==
    LET chunk == IF st.some THEN BytesCodecDecode(st.bytes)
                 ELSE Ok(NewFillValue(ChunkLen))
        updated == UpdateChunk(chunk.bytes, pairs)
        encoded == BytesCodecEncode(updated)
    IN IF fails = "read" \/ ~chunk.ok THEN OutResult("err", st, <<>>)
       ELSE IF ~Validate(chunk.bytes) THEN OutResult("err", NoneV, <<OutErase>>)
       ELSE IF ~storeEmpty /\ IsFillValue(updated)
       THEN OutResult("ok", NoneV, <<OutErase>>)
       ELSE IF fails = "encode" THEN OutResult("err", st, <<>>)
       ELSE OutResult("ok", StorePartialEncode(st, 0, encoded),
                      <<OutWrite(0, encoded)>>)

(* ArrayPartialEncoderDefault::partial_encode_opt with the calls it makes  *)
(* on its output handle.                                                   *)
ArrayPartialEncoderDefaultOut(st, pairs, storeEmpty, fails) ==
    LET chunk == IF st.some THEN BytesCodecDecode(st.bytes)
                 ELSE Ok(NewFillValue(ChunkLen))
        updated == UpdateChunk(chunk.bytes, pairs)
        encoded == BytesCodecEncode(updated)
    IN IF fails = "read" \/ ~chunk.ok \/ ~Validate(chunk.bytes)
       THEN OutResult("err", st, <<>>)
       ELSE IF ~storeEmpty /\ IsFillValue(updated)
       THEN OutResult("ok", NoneV, <<OutErase>>)
       ELSE IF fails = "encode" THEN OutResult("err", st, <<>>)
       ELSE OutResult("ok", StorePartialEncode(st, 0, encoded),
                      <<OutWrite(0, encoded)>>)

EncOutScenario(st, status, prev, pairs, storeEmpty, fails, out) ==
    [store |-> st, status |-> status, prev |-> prev, pairs |-> pairs,
     storeEmpty |-> storeEmpty, fails |-> fails, out |-> out]
IdleEncOut(st) == EncOutScenario(st, "idle", NoneV, <<>>, FALSE, "none", <<>>)

InitEncOut ==
    /\ IdleCache
    /\ shardv = 0
    /\ arrv = 0
    /\ \E st \in StoredChunks("a2b") : encv = IdleEncOut(st)

PartialEncodeOptOut ==
    /\ encv.status = "idle"
    /\ \E pairs \in PairLists, storeEmpty \in BOOLEAN, fails \in EncodeFailures :
       \E r \in {ArrayPartialEncoderDefaultOut(encv.store, pairs, storeEmpty,
                                               fails)} :
           encv' = EncOutScenario(r.store, r.status, encv.store, pairs,
                                  storeEmpty, fails, r.out)
    /\ UNCHANGED <<kind, capacity, cache, waiter, pc, ckey, cval, obs, recency,
                   shardv, arrv>>

EncOutReturn ==
    /\ encv.status # "idle"
    /\ encv' = IdleEncOut(encv.store)
    /\ UNCHANGED <<kind, capacity, cache, waiter, pc, ckey, cval, obs, recency,
                   shardv, arrv>>

NextEncOut ==
    \/ PartialEncodeOptOut
    \/ EncOutReturn

SpecEncOut == InitEncOut /\ [][NextEncOut]_vars

(* What fails in the call that has just been made.                         *)
ReadOrDecodeFails ==
    \/ encv.fails = "read"
    \/ encv.prev.some /\ ~BytesCodecDecode(encv.prev.bytes).ok
ValidationFails ==
    /\ ~ReadOrDecodeFails
    /\ encv.prev.some
    /\ Len(BytesCodecDecode(encv.prev.bytes).bytes) # NumBytes(ChunkLen)
UpdatedChunkOut == UpdateChunk(RetrieveChunk("a2b", encv.prev), encv.pairs)
EncodeFails ==
    /\ ~ReadOrDecodeFails
    /\ ~ValidationFails
    /\ encv.fails = "encode"
    /\ encv.storeEmpty \/ ~IsFillValue(UpdatedChunkOut)

(* C31: a successful call of the default array-to-bytes partial encoder    *)
(* makes exactly one call on its output handle, an erase or a write of the *)
(* whole encoded chunk at offset 0; a call in which reading, decoding or   *)
(* validating the stored chunk or encoding the updated chunk fails returns *)
(* an error, makes no call on the output handle and leaves the stored      *)
(* chunk as it was.                                                        *)
C31_OneOutputAction ==
    encv.status # "idle" =>
        /\ (encv.status = "err")
               = (ReadOrDecodeFails \/ ValidationFails \/ EncodeFails)
        /\ encv.status = "err" => encv.out = <<>> /\ encv.store = encv.prev
        /\ encv.status = "ok" =>
               /\ Len(encv.out) = 1
               /\ \/ encv.out[1].what = "erase" /\ encv.store = NoneV
                  \/ /\ encv.out[1].what = "write"
                     /\ encv.out[1].offset = 0
                     /\ Len(encv.out[1].bytes) = NumBytes(ChunkLen)
                     /\ encv.store = SomeV(encv.out[1].bytes)
                     /\ BytesCodecDecode(encv.out[1].bytes) = Ok(UpdatedChunkOut)

(* The encoding of an updated chunk fails on a chunk that was stored.      *)
C31_Witness ==
    /\ encv.status = "err"
    /\ EncodeFails
    /\ encv.prev.some
    /\ encv.pairs # <<>>
    /\ UpdatedChunkOut # RetrieveChunk("a2b", encv.prev)
    /\ encv.store = encv.prev

(* A stored chunk of the wrong length fails validation.                    *)
ValidationFailure == encv.status = "err" /\ ValidationFails /\ encv.pairs # <<>>
(* One erase and one write.                                                *)
OneErase ==
    encv.status = "ok" /\ encv.prev.some /\ encv.out = <<OutErase>>
OneWrite ==
    /\ encv.status = "ok"
    /\ encv.prev.some
    /\ Len(encv.out) = 1
    /\ encv.out[1].what = "write"
    /\ encv.store # encv.prev

(* Without an injected failure the call is the call of the other encoder   *)
(* scenarios.                                                              *)
OutAgreesWithDefault ==
    (encv.status # "idle" /\ encv.fails = "none") =>
        \E r \in {ArrayPartialEncoderDefault(encv.prev, encv.pairs,
                                             encv.storeEmpty)} :
            /\ r.status = encv.status
            /\ r.store = encv.store
            /\ (r.did = "none") = (encv.out = <<>>)
            /\ r.did # "none" => encv.out[1].what = r.did


----------------------------------------------------------------------------
(* Failing thunks of try_get_or_insert_with, with the keys whose thunk has *)
(* failed so far remembered in arrv.failed.  The cache is filled through   *)
(* try_get_or_insert_with alone, as retrieve_chunk_opt_cached does.        *)

(* As ThunkErrRemembered, but moka keeps the failed caller as the one the  *)
(* callers of the key wait for.                                            *)
ThunkErrKeepsWaiter(c) ==
    /\ pc[c] = "init"
    /\ obs' = Obs("err", {c}, ckey[c], NoneV, c)
    /\ pc' = [pc EXCEPT ![c] = "idle"]
    /\ ckey' = [ckey EXCEPT ![c] = 0]
    /\ arrv' = [failed |-> arrv.failed \cup {ckey[c]}]
    /\ UNCHANGED <<kind, capacity, cache, waiter, cval, recency, encv, shardv>>

(* The thunk of caller c returns Err: nothing is inserted, the error goes  *)
(* to the caller and, under moka, to the callers blocked on the key.       *)
ThunkErrRemembered(c) ==
    /\ pc[c] = "init"
    /\ IF UsesMoka
       THEN /\ waiter' = Drop(waiter, ckey[c])
            /\ obs' = Obs("err", {c} \cup Waiting(ckey[c]), ckey[c], NoneV, c)
            /\ pc' = Release(c, ckey[c])
            /\ ckey' = Forget(c, ckey[c])
       ELSE /\ obs' = Obs("err", {c}, ckey[c], NoneV, c)
            /\ pc' = [pc EXCEPT ![c] = "idle"]
            /\ ckey' = [ckey EXCEPT ![c] = 0]
            /\ UNCHANGED waiter
    /\ arrv' = [failed |-> arrv.failed \cup {ckey[c]}]
    /\ UNCHANGED <<kind, capacity, cache, cval, recency, encv, shardv>>

InitThunkErr ==
    /\ kind \in Kinds
    /\ capacity = 1
    /\ FreshCache
    /\ encv = 0
    /\ shardv = 0
    /\ arrv = [failed |-> {}]

NextThunkErr ==
    \/ \E c \in Callers, k \in ConcKeys : Get(c, k)
    \/ \E c \in Callers, k \in ConcKeys : TryGetOrInsertWith(c, k)
    \/ \E c \in Callers, v \in ConcValues : ThunkOk(c, v)
    \/ \E c \in Callers : ThunkErrRemembered(c)
    \/ \E c \in Callers : DefaultInsert(c)
    \/ \E c \in Callers : LenCall(c)
    \/ \E c \in Callers : SizeCall(c)
    \/ Housekeeping

SpecThunkErr == InitThunkErr /\ [][NextThunkErr]_vars

ThunkRunsFor(k) == \E c \in Callers : pc[c] = "init" /\ ckey[c] = k
LenOf(c) == EntryCount(RunPendingTasks(c, kind, capacity))
SizeOf(c) == WeightedSize(RunPendingTasks(c, kind, capacity))

(* The step in which a thunk returns an error changes nothing of the       *)
(* cache: the entries, what len() and size() report, what get returns.     *)
FailedCallLeavesCache ==
    [][(obs'.tag = "err" /\ obs' # obs) =>
           /\ cache' = cache
           /\ obs'.k \notin DOMAIN cache'.map \ DOMAIN cache.map
           /\ LenOf(cache') = LenOf(cache)
           /\ SizeOf(cache') = SizeOf(cache)
           /\ \A k \in ConcKeys :
                  (k \in DOMAIN cache'.map) = (k \in DOMAIN cache.map)]_vars

(* A call that starts for a key without an entry runs its thunk, or waits  *)
(* for a thunk that is running for the key now; it never gets the error of *)
(* an earlier thunk, nor a value.                                          *)
StartedCallRunsThunk ==
    [][/\ (obs'.tag = "blocked" /\ obs' # obs) => ThunkRunsFor(obs'.k)
       /\ (obs'.tag = "ok" /\ obs'.n = 0 /\ obs' # obs) =>
              obs'.k \in DOMAIN cache.map
       /\ (obs'.tag = "err" /\ obs' # obs) =>
              pc[obs'.n] = "init" /\ ckey[obs'.n] = obs'.k]_vars

(* Nothing of a failed call stays behind: a key is waited for only while a *)
(* thunk runs for it, and with moka, under which one thunk runs for a key  *)
(* at a time, the key of a failed call has no entry when the call returns. *)
FailedCallLeavesNothing ==
    /\ \A k \in DOMAIN waiter : ThunkRunsFor(k)
    /\ \A c \in Callers : pc[c] = "wait" => ThunkRunsFor(ckey[c])
    /\ (obs.tag = "err" /\ UsesMoka) => obs.k \notin DOMAIN cache.map

(* C32: a failed get-or-try-insert leaves the cache unchanged: the failing *)
(* thunk inserts no entry for the key, len and size are as before, get     *)
(* returns None for the key, and a later get-or-try-insert for the key     *)
(* runs its thunk again.                                                   *)
C32_FailedInsertLeavesCache ==
    /\ FailedCallLeavesCache
    /\ StartedCallRunsThunk
    /\ []FailedCallLeavesNothing

(* A thunk runs for a key whose thunk failed before and that has no entry, *)
(* in a cache that holds another chunk.                                    *)
C32_Witness ==
    \E c \in Callers :
        /\ pc[c] = "init"
        /\ ckey[c] \in arrv.failed
        /\ obs = Obs("thunk", {c}, ckey[c], NoneV, 0)
        /\ ckey[c] \notin DOMAIN cache.map
        /\ cache.map # EmptyFn

(* A get of a key right after its thunk failed: a miss.                    *)
MissAfterFailure ==
    /\ obs.tag = "miss"
    /\ obs.k \in arrv.failed
    /\ obs.k \notin DOMAIN cache.map
(* With the trait's default body another caller's own thunk may have       *)
(* inserted the key by the time the failed call returns.                   *)
OtherCallerInserted ==
    /\ obs.tag = "err"
    /\ kind = "trait_default"
    /\ obs.k \in DOMAIN cache.map


----------------------------------------------------------------------------
(* The output buffer of the multi-chunk path when its length is set.       *)

(* Every byte of the output has been written, by one task, in one run of   *)
(* that task.                                                              *)
RunsWriting(ss, k, p) ==
    {row \in 0..(TaskOverlap(ss, k).shape[1] - 1) :
        p \in RunCells(ss.shape, RelativeTo2(TaskOverlap(ss, k), ss.start), row)}
WrittenOnce(a) ==
    /\ Len(a.output) = NumBytes(NumElements(a.subset))
    /\ DOMAIN a.writers = 1..NumBytes(NumElements(a.subset))
    /\ \A p \in 1..NumBytes(NumElements(a.subset)) :
           /\ a.output[p] # Uninit
           /\ Cardinality(a.writers[p]) = 1
           /\ \A k \in a.writers[p] :
                  /\ Cardinality(RunsWriting(a.subset, k, p)) = 1
                  /\ \A row \in RunsWriting(a.subset, k, p) : row < a.rows[k]

(* C33: in the multi-chunk fixed-width path, when all chunk tasks are      *)
(* through, every byte of the output buffer has been written exactly once  *)
(* before the length of the buffer is set to the full size, and the buffer *)
(* that is returned holds no uninitialised byte.                           *)
C33_OutputCoverage ==
    /\ [](arrv.status = "done" => WrittenOnce(arrv))
    /\ [][(arrv.status = "scatter" /\ arrv'.status = "done") =>
              /\ WrittenOnce(arrv)
              /\ arrv'.output = arrv.output]_vars

(* A subset over parts of four chunks has been assembled; the last task to *)
(* finish was that of the first chunk.                                     *)
C33_Witness ==
    /\ arrv.status = "done"
    /\ arrv.subset = Subset2(<<1, 1>>, <<2, 2>>)
    /\ Cardinality(DOMAIN arrv.rows) = 4
    /\ \A k \in DOMAIN arrv.rows : TaskOverlap(arrv.subset, k) # ChunkSubset(k)
    /\ \A p \in DOMAIN arrv.output : arrv.output[p] # Uninit


----------------------------------------------------------------------------
(* The sharding partial encoder under the orders in which the HashMap of   *)
(* the updated inner chunks may be iterated.                               *)

(* What the call of the state would have given with the order o.           *)
WithOrder(o) ==
    ShardingPartialEncoder(shardv.prev, shardv.loc, shardv.pairs, o)
DecodedThrough(st, index, j) ==
    DecodeInnerChunk(st, IndexOffset(index, j), IndexSize(index, j))

SameUpToLayout(r) ==
    /\ r.status = shardv.status
    /\ \A j \in InnerChunks :
           /\ DecodedThrough(r.store, r.index, j)
                  = DecodedThrough(shardv.store, shardv.index, j)
           /\ IsSentinel(r.index, j) = IsSentinel(shardv.index, j)
           /\ IndexSize(r.index, j) = IndexSize(shardv.index, j)
           /\ j \notin ShardTouched =>
                  IndexOffset(r.index, j) = IndexOffset(shardv.index, j)
    /\ RetrieveShard(r.store, shardv.loc)
           = RetrieveShard(shardv.store, shardv.loc)

(* C34: for the same shard and the same request, every order in which the  *)
(* updated inner chunks are written gives the same decoded content of      *)
(* every inner chunk and the same index entries other than the sentinel;   *)
(* only the offsets of the updated inner chunks may differ.                *)
C34_DeterministicUpToLayout ==
    shardv.status = "ok" =>
        \A o \in Orders(ShardTouched) : SameUpToLayout(WithOrder(o))

(* A call that updated both inner chunks of a shard that held data, where  *)
(* the other order gives other offsets.                                    *)
C34_Witness ==
    /\ shardv.status = "ok"
    /\ shardv.prev.some
    /\ ShardTouched = InnerChunks
    /\ \E o \in Orders(ShardTouched) :
           /\ WithOrder(o).index # shardv.index
           /\ WithOrder(o).store # shardv.store


----------------------------------------------------------------------------
(* The sharding partial encoder and the store_empty_chunks option.  The    *)
(* option is part of the CodecOptions of the call; the encoder hands the   *)
(* options to the codecs and does not look at the option itself.           *)

ShardPartialEncodeOptStoreEmpty ==
    /\ shardv.status = "idle"
    /\ \E storeEmpty \in BOOLEAN :
       \E n \in 0..MaxShardPairs : \E pairs \in [1..n -> ShardPairs] :
       \E order \in Orders(InnerChunksTouched(pairs)) :
       \E r \in {ShardingPartialEncoder(shardv.store, shardv.loc, pairs, order)} :
           /\ r.store.some => Len(r.store.bytes) <= MaxShardBytes
           /\ shardv' = [loc |-> shardv.loc, store |-> r.store,
                         status |-> r.status, prev |-> shardv.store,
                         pairs |-> pairs, index |-> r.index, log |-> r.log,
                         storeEmpty |-> storeEmpty]
    /\ UNCHANGED <<kind, capacity, cache, waiter, pc, ckey, cval, obs, recency,
                   encv, arrv>>

ShardReturnStoreEmpty ==
    /\ shardv.status # "idle"
    /\ shardv' = IdleShard(shardv.loc, shardv.store) @@ [storeEmpty |-> FALSE]
    /\ UNCHANGED <<kind, capacity, cache, waiter, pc, ckey, cval, obs, recency,
                   encv, arrv>>

InitShardStoreEmpty ==
    /\ IdleCache
    /\ encv = 0
    /\ arrv = 0
    /\ \E loc \in IndexLocations :
           shardv = IdleShard(loc, NoneV) @@ [storeEmpty |-> FALSE]

NextShardStoreEmpty ==
    \/ ShardPartialEncodeOptStoreEmpty
    \/ ShardReturnStoreEmpty

SpecShardStoreEmpty == InitShardStoreEmpty /\ [][NextShardStoreEmpty]_vars

(* The touched inner chunks whose updated content is the fill value.       *)
UpdatedToFill ==
    {j \in ShardTouched :
        InnerChunkOf(Overwritten(PrevDecoded, shardv.pairs), j)
            = NewFillValue(InnerChunkLen)}

(* C35: the sharding partial encoder never elides: after a successful call *)
(* every inner chunk the call touched has an index entry other than the    *)
(* sentinel, also when its updated content is the fill value, and the      *)
(* shard key is written, never erased, whatever store_empty_chunks is.     *)
C35_NeverElides ==
    shardv.status = "ok" =>
        /\ shardv.store.some
        /\ Len(shardv.log) = Cardinality(ShardTouched) + 1
        /\ \A i \in 1..Len(shardv.log) : shardv.log[i].what \in {"chunk", "index"}
        /\ \A j \in ShardTouched :
               /\ ~IsSentinel(shardv.index, j)
               /\ IndexSize(shardv.index, j) = InnerEncodedLen
               /\ \E i \in ChunkWrites : shardv.log[i].j = j

(* With store_empty_chunks off, a call made every inner chunk of a shard   *)
(* that held data the fill value: the shard is still there, with an entry  *)
(* for each of them.                                                       *)
C35_Witness ==
    /\ shardv.status = "ok"
    /\ ~shardv.storeEmpty
    /\ shardv.prev.some
    /\ RetrieveShard(shardv.prev, shardv.loc) # NewFillValue(ShardLen)
    /\ UpdatedToFill = InnerChunks
    /\ RetrieveShard(shardv.store, shardv.loc) = NewFillValue(ShardLen)
    /\ shardv.store.some
    /\ \A j \in InnerChunks : ~IsSentinel(shardv.index, j)


----------------------------------------------------------------------------
(* Negative caching.  An encoded cache entry is an Option: None stands for *)
(* a chunk the store does not hold.                                        *)

(* This step is a call of retrieve_chunk_opt_cached for chunk k, which the *)
(* store does not hold and the cache does not hold either.                 *)
AbsentMiss(k) ==
    /\ arrv.status = "idle"
    /\ arrv'.status = "done"
    /\ arrv'.op = "chunk"
    /\ arrv'.key = k
    /\ k \notin arrv.stored
    /\ k \notin DOMAIN cache.map

(* This step is a call of retrieve_chunk_opt_cached for chunk k, for which *)
(* the cache holds the entry of an absent chunk.                           *)
AbsentHit(k) ==
    /\ arrv.status = "idle"
    /\ arrv'.status = "done"
    /\ arrv'.op = "chunk"
    /\ arrv'.key = k
    /\ k \in DOMAIN cache.map
    /\ cache.map[k] = NoneV

(* The call that has returned read nothing and returned the fill value for *)
(* every element of the chunk.                                             *)
FillValueWithoutRead ==
    /\ ReadChunks = {}
    /\ arrv.result = Ok(NewFillValue(ChunkElements))

AbsentChunkAgain == SameChunkAgain /\ arrv.key \notin arrv.stored

(* C36, as stated: a cached retrieval of a chunk the store does not hold   *)
(* inserts an entry for it, so that len() grows by one and size() of a     *)
(* size-limited cache stays as it is; the next cached retrieval of that    *)
(* chunk reads nothing from the store and returns the fill value.          *)
C36_NegativeCaching ==
    /\ [][\A k \in ChunkGrid :
            AbsentMiss(k) =>
                /\ k \in DOMAIN cache'.map
                /\ cache'.map[k] = NoneV
                /\ LenOf(cache') = LenOf(cache) + 1
                /\ kind = "size_limit" => SizeOf(cache') = SizeOf(cache)]_vars
    /\ [](AbsentChunkAgain => FillValueWithoutRead)

(* C36, amended: the retrieval inserts an entry for the absent chunk; in a *)
(* size-limited cache the entry weighs 0, len() grows by one and size()    *)
(* stays; in a chunk-limited cache len() grows by one up to the capacity.  *)
(* A retrieval that finds the entry reads nothing and returns the fill     *)
(* value, and so does the next retrieval of the chunk whenever the cache   *)
(* can hold an entry.                                                      *)
C36_NegativeCachingWhenHeld ==
    /\ [][\A k \in ChunkGrid :
            AbsentMiss(k) =>
                /\ k \in DOMAIN cache'.map
                /\ cache'.map[k] = NoneV
                /\ arrv'.reads[k] = <<"get">>
                /\ kind = "size_limit" =>
                       /\ LenOf(cache') = LenOf(cache) + 1
                       /\ SizeOf(cache') = SizeOf(cache)
                       /\ k \in Kept(cache')
                /\ kind = "chunk_limit" =>
                       LenOf(cache') = Min(LenOf(cache) + 1, capacity)]_vars
    /\ [][\A k \in ChunkGrid :
            AbsentHit(k) =>
                /\ arrv'.reads = NoReads
                /\ arrv'.result = Ok(NewFillValue(ChunkElements))
                /\ cache'.map = cache.map]_vars
    /\ []((AbsentChunkAgain /\ CanHold(arrv.key)) => FillValueWithoutRead)

(* The second of two retrievals of an absent chunk through a size-limited  *)
(* cache that holds a stored chunk as well: the entry is there and weighs  *)
(* nothing.                                                                *)
C36_Witness ==
    /\ AbsentChunkAgain
    /\ FillValueWithoutRead
    /\ kind = "size_limit"
    /\ cache.map[arrv.key] = NoneV
    /\ \E k \in DOMAIN cache.map : cache.map[k].some
    /\ LenOf(cache) = 2
    /\ SizeOf(cache) = ChunkBytes

(* A chunk-limited cache of capacity 0 keeps no entry: the absent chunk is *)
(* read again.                                                             *)
AbsentChunkReadAgain ==
    /\ AbsentChunkAgain
    /\ capacity = 0
    /\ ReadChunks = {arrv.key}
    /\ arrv.result = Ok(NewFillValue(ChunkElements))


----------------------------------------------------------------------------
(* The partial decoder of the bytes codec.  The chunk is two-dimensional   *)
(* with the shape ChunkShape; a call asks for a list of regions of it.     *)
(* The decoder is made with an endianness: none (data types of one byte), *)
(* the native one, or the other one.                                       *)

MaxRegions == 2     \* most regions given to one partial decode

Endiannesses == {"none", "native", "swapped"}

(* Regions of a chunk, inside it or reaching beyond its edge.              *)
ChunkRegions ==
    {Subset2(<<r, c>>, <<h, w>>) :
        r \in 0..(ChunkRows - 1), c \in 0..(ChunkCols - 1),
        h \in 1..ChunkRows, w \in 1..ChunkCols}
InChunk(ss) == EndExc(ss, 1) <= ChunkRows /\ EndExc(ss, 2) <= ChunkCols
RegionLists == UNION {[1..n -> ChunkRegions] : n \in 0..MaxRegions}

ByteRange(offset, length) == [offset |-> offset, length |-> length]

(* ArraySubset::byte_ranges: the runs of contiguous bytes of the subset in *)
(* an array of the given shape, in row-major order; rows of the full width *)
(* make one run.  A subset that reaches beyond the shape is an error.      *)
ByteRangesOf(ss, shape) ==
    IF EndExc(ss, 1) > shape[1] \/ EndExc(ss, 2) > shape[2]
    THEN [ok |-> FALSE, ranges |-> <<>>]
    ELSE IF ss.shape[2] = shape[2]
    THEN [ok |-> TRUE,
          ranges |-> <<ByteRange(NumBytes(ss.start[1] * shape[2]),
                                 NumBytes(NumElements(ss)))>>]
    ELSE [ok |-> TRUE,
          ranges |-> [i \in 1..ss.shape[1] |->
                         ByteRange(NumBytes((ss.start[1] + i - 1) * shape[2] + ss.start[2]),
                                   NumBytes(ss.shape[2]))]]

(* The input handle's partial_decode: the bytes of each range of the       *)
(* stored value; none when there is no value, an error when a range ends   *)
(* beyond the value.                                                       *)
DecodedRanges(status, parts) == [status |-> status, parts |-> parts]
InputPartialDecode(st, ranges) ==
    IF ~st.some THEN DecodedRanges("none", <<>>)
    ELSE IF \E i \in 1..Len(ranges) :
                ranges[i].offset + ranges[i].length > Len(st.bytes)
    THEN DecodedRanges("err", <<>>)
    ELSE DecodedRanges("some",
                       [i \in 1..Len(ranges) |->
                           SubSeq(st.bytes, ranges[i].offset + 1,
                                  ranges[i].offset + ranges[i].length)])

RepeatFill(fill, n) == Flatten([i \in 1..n |-> fill])

DecodedRegions(ok, bufs) == [ok |-> ok, bufs |-> bufs]

(* As DoPartialDecode, but the bytes are returned as they are stored.      *)
RECURSIVE DoPartialDecodeNoReverse(_, _, _, _, _)
DoPartialDecodeNoReverse(st, endian, fill, regions, bytes) ==
    IF regions = <<>> THEN DecodedRegions(TRUE, bytes)
    ELSE LET byteRanges == ByteRangesOf(Head(regions), ChunkShape)
             decoded == InputPartialDecode(st, byteRanges.ranges)
         IN IF ~byteRanges.ok \/ decoded.status = "err"
            THEN DecodedRegions(FALSE, <<>>)
            ELSE DoPartialDecodeNoReverse(
                     st, endian, fill, Tail(regions),
                     Append(bytes,
                            IF decoded.status = "none"
                            THEN RepeatFill(fill, NumElements(Head(regions)))
                            ELSE Flatten(decoded.parts)))

(* As DoPartialDecode, but the buffers are returned from the last region   *)
(* to the first.                                                           *)
RECURSIVE DoPartialDecodeLastFirst(_, _, _, _, _)
DoPartialDecodeLastFirst(st, endian, fill, regions, bytes) ==
    IF regions = <<>> THEN DecodedRegions(TRUE, bytes)
    ELSE LET byteRanges == ByteRangesOf(Head(regions), ChunkShape)
             decoded == InputPartialDecode(st, byteRanges.ranges)
         IN IF ~byteRanges.ok \/ decoded.status = "err"
            THEN DecodedRegions(FALSE, <<>>)
            ELSE DoPartialDecodeLastFirst(
                     st, endian, fill, Tail(regions),
                     <<IF decoded.status = "none"
                       THEN RepeatFill(fill, NumElements(Head(regions)))
                       ELSE IF endian = "swapped"
                       THEN ReverseEndianness(Flatten(decoded.parts))
                       ELSE Flatten(decoded.parts)>> \o bytes)

(* BytesPartialDecoder::do_partial_decode: for each region in turn, its    *)
(* byte ranges, the input handle's partial decode of them, and the buffer  *)
(* pushed to the result: the fill value repeated when there is no value,   *)
(* the ranges concatenated otherwise, with the endianness reversed when    *)
(* the decoder's is not the native one.  The first error ends the call.    *)
RECURSIVE DoPartialDecode(_, _, _, _, _)
DoPartialDecode(st, endian, fill, regions, bytes) ==
    IF regions = <<>> THEN DecodedRegions(TRUE, bytes)
    ELSE LET byteRanges == ByteRangesOf(Head(regions), ChunkShape)
             decoded == InputPartialDecode(st, byteRanges.ranges)
         IN IF ~byteRanges.ok \/ decoded.status = "err"
            THEN DecodedRegions(FALSE, <<>>)
            ELSE DoPartialDecode(
                     st, endian, fill, Tail(regions),
                     Append(bytes,
                            IF decoded.status = "none"
                            THEN RepeatFill(fill, NumElements(Head(regions)))
                            ELSE IF endian = "swapped"
                            THEN ReverseEndianness(Flatten(decoded.parts))
                            ELSE Flatten(decoded.parts)))

(* The bytes codec on a whole chunk, with the decoder's endianness.        *)
BytesCodecEncodeWith(endian, b) ==
    IF endian = "swapped" THEN ReverseEndianness(b) ELSE b
BytesCodecDecodeWith(endian, b) ==
    IF Len(b) # ChunkBytes THEN Err
    ELSE IF endian = "swapped" THEN Ok(ReverseEndianness(b)) ELSE Ok(b)

(* The values under the chunk's key: none, the encoding of a chunk of the  *)
(* array, or a value a byte short of a chunk.                              *)
ShortChunk(endian) ==
    SomeV(SubSeq(BytesCodecEncodeWith(endian, DecodedChunk(<<0, 0>>)), 1, ChunkBytes - 1))
DecoderStored(endian) ==
    {NoneV, ShortChunk(endian)}
        \cup {SomeV(BytesCodecEncodeWith(endian, DecodedChunk(k))) : k \in ChunkGrid}

DecodeScenario(status, st, endian, fill, regions, result) ==
    [status |-> status, store |-> st, endian |-> endian, fill |-> fill,
     regions |-> regions, result |-> result]

InitPartialDecode ==
    /\ IdleCache
    /\ shardv = 0
    /\ arrv = 0
    /\ \E endian \in Endiannesses, fill \in ElementValues :
       \E st \in DecoderStored(endian) :
           encv = DecodeScenario("idle", st, endian, fill, <<>>,
                                 DecodedRegions(FALSE, <<>>))

(* A call of partial_decode with a list of regions.                        *)
PartialDecode ==
    /\ encv.status = "idle"
    /\ \E regions \in RegionLists :
           encv' = [encv EXCEPT
                       !.status = "done",
                       !.regions = regions,
                       !.result = DoPartialDecode(encv.store, encv.endian, encv.fill,
                                                  regions, <<>>)]
    /\ UNCHANGED <<kind, capacity, cache, waiter, pc, ckey, cval, obs, recency,
                   shardv, arrv>>

(* The call has returned; its arguments and its result are dropped.        *)
PartialDecodeReturn ==
    /\ encv.status = "done"
    /\ encv' = [encv EXCEPT !.status = "idle", !.regions = <<>>,
                            !.result = DecodedRegions(FALSE, <<>>)]
    /\ UNCHANGED <<kind, capacity, cache, waiter, pc, ckey, cval, obs, recency,
                   shardv, arrv>>

NextPartialDecode ==
    \/ PartialDecode
    \/ PartialDecodeReturn

SpecPartialDecode == InitPartialDecode /\ [][NextPartialDecode]_vars

RegionsInChunk == \A i \in 1..Len(encv.regions) : InChunk(encv.regions[i])

(* The whole chunk decoded with the bytes codec.                           *)
WholeDecoded == BytesCodecDecodeWith(encv.endian, encv.store.bytes)

(* C37: for every list of regions inside the chunk, partial_decode returns *)
(* one buffer for each region, in the order of the regions, each of the    *)
(* region's number of elements times the element size in bytes; a buffer   *)
(* is the region sliced out of the whole chunk decoded with the bytes      *)
(* codec, or the fill value repeated when there is no chunk.               *)
C37_PartialDecodeAgrees ==
    (/\ encv.status = "done"
     /\ RegionsInChunk
     /\ encv.store.some => WholeDecoded.ok) =>
        /\ encv.result.ok
        /\ Len(encv.result.bufs) = Len(encv.regions)
        /\ \A i \in 1..Len(encv.regions) :
               /\ Len(encv.result.bufs[i]) = NumElements(encv.regions[i]) * DataTypeSize
               /\ encv.result.bufs[i] =
                      IF encv.store.some
                      THEN ExtractArraySubset2(WholeDecoded.bytes, encv.regions[i],
                                               ChunkShape).bytes
                      ELSE RepeatFill(encv.fill, NumElements(encv.regions[i]))

(* Two regions of different sizes, the first a column (two byte ranges),   *)
(* decoded from a stored chunk with the endianness reversed.               *)
C37_Witness ==
    /\ encv.status = "done"
    /\ encv.store.some
    /\ WholeDecoded.ok
    /\ encv.endian = "swapped"
    /\ encv.regions = <<Subset2(<<0, 1>>, <<ChunkRows, 1>>), Subset2(<<1, 0>>, <<1, 1>>)>>
    /\ encv.result.ok
    /\ encv.result.bufs[1] # encv.result.bufs[2]
    /\ encv.result.bufs[2] = ElementAt(WholeDecoded.bytes, ChunkCols)
    /\ encv.result.bufs[2] # ElementAt(encv.store.bytes, ChunkCols)

(* No chunk: every buffer is the fill value repeated.                      *)
AbsentChunkDecoded ==
    /\ encv.status = "done"
    /\ ~encv.store.some
    /\ encv.fill # FillValue
    /\ Len(encv.regions) = MaxRegions
    /\ encv.result.ok
    /\ encv.result.bufs[1] = RepeatFill(encv.fill, NumElements(encv.regions[1]))
    /\ NumElements(encv.regions[1]) = ChunkElements

(* A region that reaches beyond the chunk is an error, whether there is a  *)
(* chunk or not; so is a region whose bytes the stored value does not hold.*)
RegionErrors ==
    encv.status = "done" =>
        /\ ~RegionsInChunk => ~encv.result.ok
        /\ (encv.store = ShortChunk(encv.endian)
               /\ \E i \in 1..Len(encv.regions) :
                      encv.regions[i] = Subset2(<<0, 0>>, ChunkShape))
              => ~encv.result.ok


----------------------------------------------------------------------------
(* The paths of retrieve_array_subset_opt_cached side by side.             *)

(* What the path for several chunks gives for the chunks the call has      *)
(* retrieved: an output buffer of the subset's size, and each chunk's      *)
(* overlap with the subset copied to its place.                            *)
FanOutResult ==
    IF \E k \in DOMAIN arrv.fetched : ~arrv.fetched[k].bytes.ok THEN Err
    ELSE ScatterChunks(Ok(Uninitialised(NumBytes(NumElements(arrv.subset)))),
                       arrv.subset, arrv.fetched, DOMAIN arrv.fetched)

FastPathDone ==
    /\ arrv.status = "done"
    /\ arrv.op = "subset"
    /\ Cardinality(CallChunks) <= 1

SubsetIsChunk == \E k \in ChunkGrid : ChunkSubset(k) = arrv.subset

(* C38: for every subset that intersects no chunk or one chunk, the result *)
(* of retrieve_array_subset_opt_cached is what the path for several chunks *)
(* gives for that subset.  The path of one chunk that is not the whole     *)
(* subset breaks it.                                                       *)
C38_FastPathsAgree ==
    FastPathDone => arrv.result = FanOutResult

(* The same for the other two fast paths: no chunk, and one chunk that is  *)
(* the subset.                                                             *)
FastPathsAgreeOffSubsetPath ==
    (FastPathDone /\ (CallChunks = {} \/ SubsetIsChunk)) => arrv.result = FanOutResult

(* A subset that is one whole chunk was returned as the chunk is.          *)
WholeChunkFastPath ==
    /\ FastPathDone
    /\ SubsetIsChunk
    /\ arrv.result = Ok(DecodedChunk(CHOOSE k \in ChunkGrid : ChunkSubset(k) = arrv.subset))
    /\ arrv.result = FanOutResult

(* A subset of one element that is not at its chunk's origin: the path of  *)
(* one chunk fails, the path for several chunks gives the element.         *)
ChunkSubsetPathFails ==
    /\ FastPathDone
    /\ arrv.subset = Subset2(<<1, 1>>, <<1, 1>>)
    /\ <<0, 0>> \in arrv.stored
    /\ ~arrv.result.ok
    /\ FanOutResult = Ok(ElementBytes(1, 1))

(* The first column of a chunk: the path of one chunk returns the chunk's  *)
(* first row.                                                              *)
ChunkSubsetPathWrongElements ==
    /\ FastPathDone
    /\ arrv.subset = Subset2(<<0, 0>>, <<ChunkRows, 1>>)
    /\ arrv.result.ok
    /\ arrv.result.bytes = ElementBytes(0, 0) \o ElementBytes(0, 1)
    /\ FanOutResult = Ok(ElementBytes(0, 0) \o ElementBytes(1, 0))


----------------------------------------------------------------------------
(* Subsets of another dimensionality than the array's.  encv holds the     *)
(* argument of the running or last call and the error of its               *)
(* dimensionality check.                                                   *)

Dimensionality(ss) == Len(ss.start)

MismatchedSubsets ==
    {Subset2(<<0>>, <<1>>), Subset2(<<0, 0, 0>>, <<1, 1, 1>>)}

(* Subsets of the chunk grid: start and shape in chunks.                   *)
ChunksSubsets ==
    {Subset2(<<r, c>>, <<h, w>>) :
        r \in 0..(GridShape[1] - 1), c \in 0..(GridShape[2] - 1),
        h \in 1..GridShape[1], w \in 1..GridShape[2]}
InGridSubsets == {cs \in ChunksSubsets :
                     EndExc(cs, 1) <= GridShape[1] /\ EndExc(cs, 2) <= GridShape[2]}

(* Array::chunks_subset: the region of the array the chunks cover.         *)
ChunksSubset(chunks) ==
    Subset2(<<chunks.start[1] * ChunkRows, chunks.start[2] * ChunkCols>>,
            <<chunks.shape[1] * ChunkRows, chunks.shape[2] * ChunkCols>>)

CallArg(arg, error) == [arg |-> arg, error |-> error]
NoArg == CallArg(Subset2(<<0, 0>>, <<1, 1>>), "none")

(* The call returned the error of its dimensionality check.                *)
InvalidArraySubset(op, ss) ==
    /\ arrv' = [ArrIdle(arrv.stored) EXCEPT
                   !.status = "done", !.op = op, !.subset = ss,
                   !.cached0 = DOMAIN (Housekeep(cache)).map]
    /\ encv' = CallArg(ss, "InvalidArraySubset")
    /\ UNCHANGED cache

(* The call goes on to retrieve the chunks that intersect the subset.      *)
StartFetch(op, arg, ss) ==
    /\ arrv' = [stored |-> arrv.stored, status |-> "fetch", op |-> op,
                key |-> <<0, 0>>, subset |-> ss, pending |-> ChunksInArraySubset2(ss),
                fetched |-> EmptyFn, reads |-> NoReads,
                cached0 |-> DOMAIN (Housekeep(cache)).map,
                result |-> Err, prev |-> NoPrev]
    /\ encv' = CallArg(arg, "none")
    /\ UNCHANGED cache

(* As RetrieveArraySubsetOptCachedDims, but the dimensionality is looked   *)
(* at after the first chunk of the grid was retrieved.                     *)
RetrieveArraySubsetOptCachedChecksLate(ss) ==
    /\ arrv.status = "idle"
    /\ Room
    /\ IF Dimensionality(ss) # Dimensionality(Subset2(<<0, 0>>, ArrayShape))
       THEN \E r \in {RetrieveChunkOptCached(cache, arrv.stored, <<0, 0>>)} :
                /\ cache' = r.cache
                /\ arrv' = [ArrIdle(arrv.stored) EXCEPT
                               !.status = "done", !.op = "subset", !.subset = ss,
                               !.reads[<<0, 0>>] = r.reads,
                               !.cached0 = DOMAIN (Housekeep(cache)).map]
                /\ encv' = CallArg(ss, "InvalidArraySubset")
       ELSE StartFetch("subset", ss, ss)
    /\ UNCHANGED <<kind, capacity, waiter, pc, ckey, cval, obs, recency, shardv>>

(* A call of retrieve_array_subset_opt_cached with a subset of any         *)
(* dimensionality, up to the point where the chunks that intersect the     *)
(* subset are known.                                                       *)
RetrieveArraySubsetOptCachedDims(ss) ==
    /\ arrv.status = "idle"
    /\ IF Dimensionality(ss) # Dimensionality(Subset2(<<0, 0>>, ArrayShape))
       THEN InvalidArraySubset("subset", ss)
       ELSE StartFetch("subset", ss, ss)
    /\ UNCHANGED <<kind, capacity, waiter, pc, ckey, cval, obs, recency, shardv>>

(* A call of retrieve_chunks_opt_cached: the dimensionality check, then    *)
(* retrieve_array_subset_opt_cached with the region the chunks cover.      *)
RetrieveChunksOptCached(chunks) ==
    /\ arrv.status = "idle"
    /\ IF Dimensionality(chunks) # Dimensionality(Subset2(<<0, 0>>, ArrayShape))
       THEN InvalidArraySubset("chunks", chunks)
       ELSE StartFetch("chunks", chunks, ChunksSubset(chunks))
    /\ UNCHANGED <<kind, capacity, waiter, pc, ckey, cval, obs, recency, shardv>>

InitDims ==
    /\ kind \in {"chunk_limit", "size_limit"}
    /\ capacity \in ArrayCapacities(kind)
    /\ FreshCache
    /\ encv = NoArg
    /\ shardv = 0
    /\ \E erased \in ErasedChunks : arrv = ArrIdle(ChunkGrid \ erased)

NextDims ==
    \/ \E ss \in InArraySubsets \cup MismatchedSubsets :
           RetrieveArraySubsetOptCachedDims(ss)
    \/ \E chunks \in InGridSubsets \cup MismatchedSubsets :
           RetrieveChunksOptCached(chunks)
    \/ \E k \in ChunkGrid : FetchChunk(k)
    \/ Assemble
    \/ ArrReturn
    \/ Housekeeping

SpecDims == InitDims /\ [][NextDims]_vars

Mismatched(ss) == Dimensionality(ss) # Dimensionality(Subset2(<<0, 0>>, ArrayShape))

(* This step is a call with a subset of another dimensionality.            *)
MismatchedCall ==
    /\ arrv.status = "idle"
    /\ arrv'.status # "idle"
    /\ Mismatched(encv'.arg)

(* C39: retrieve_array_subset_opt_cached and retrieve_chunks_opt_cached    *)
(* called with a subset whose dimensionality is not the array's return an  *)
(* InvalidArraySubset error, read nothing from the store and leave the     *)
(* cache as it is.                                                         *)
C39_DimensionalityRejected ==
    /\ [][MismatchedCall =>
            /\ arrv'.status = "done"
            /\ ~arrv'.result.ok
            /\ encv'.error = "InvalidArraySubset"
            /\ arrv'.reads = NoReads
            /\ arrv'.stored = arrv.stored
            /\ cache' = cache]_vars
    /\ []((arrv.status = "done" /\ Mismatched(encv.arg)) =>
             /\ ~arrv.result.ok
             /\ encv.error = "InvalidArraySubset"
             /\ arrv.reads = NoReads
             /\ arrv.fetched = EmptyFn)
    /\ []((arrv.status # "idle" /\ ~Mismatched(encv.arg)) => encv.error = "none")

(* retrieve_chunks_opt_cached was called with a subset of one dimension on *)
(* a cache that holds a chunk some chunk of the store is not in: the call  *)
(* returned the error.                                                     *)
C39_Witness ==
    /\ arrv.status = "done"
    /\ arrv.op = "chunks"
    /\ encv.arg = Subset2(<<0>>, <<1>>)
    /\ encv.error = "InvalidArraySubset"
    /\ ~arrv.result.ok
    /\ arrv.reads = NoReads
    /\ cache.ops = <<>>
    /\ DOMAIN cache.map # {}
    /\ DOMAIN cache.map # arrv.stored

(* The same for retrieve_array_subset_opt_cached and three dimensions.     *)
SubsetOfThreeDimensionsRejected ==
    /\ arrv.status = "done"
    /\ arrv.op = "subset"
    /\ Dimensionality(encv.arg) = 3
    /\ encv.error = "InvalidArraySubset"
    /\ DOMAIN cache.map # {}

(* retrieve_chunks_opt_cached with chunks of the grid returned their       *)
(* region of the array.                                                    *)
ChunksRetrieved ==
    /\ arrv.status = "done"
    /\ arrv.op = "chunks"
    /\ encv.arg = Subset2(<<0, 0>>, <<1, GridShape[2]>>)
    /\ arrv.subset = Subset2(<<0, 0>>, <<ChunkRows, GridShape[2] * ChunkCols>>)
    /\ RowMajorResult

====
